---- MODULE Spec2Model ----
(***************************************************************************)
(* Verification model of the cortx financial MCP server:                   *)
(*   - the RBAC enforcement core            (src/auth/rbac.py)             *)
(*   - the permission model                 (src/auth/permissions.py)      *)
(*   - token validation                     (src/auth/jwt_auth.py)         *)
(*   - the tool registry                    (src/mcp/tools.py)             *)
(*   - the mock reasoning orchestrator      (src/services/mock_orchestrator.py) *)
(***************************************************************************)
EXTENDS Integers, Sequences, FiniteSets, TLC

(***************************************************************************)
(* Bounds of the model                                                     *)
(***************************************************************************)
\* largest user id carried by a token or named in tool arguments
MaxUserId == 2
\* number of "Bearer " prefixes put before a token body
MaxBearer == 2

\* Python's None for integer-valued fields
NoneInt == 0 - 1

(***************************************************************************)
(* Permission model                                     permissions.py     *)
(***************************************************************************)
Role == {"admin", "analyst", "viewer"}

Permission == {"read:market_data", "read:transactions", "read:user_transactions",
               "read:portfolios", "read:user_portfolios", "read:risk_metrics",
               "read:all_data", "write:all_data"}

ROLE_PERMISSIONS_ViewerPortfolios ==
    [r \in Role |->
        CASE r = "viewer"  -> {"read:market_data", "read:portfolios"}
          [] r = "analyst" -> {"read:market_data", "read:user_transactions",
                               "read:user_portfolios", "read:risk_metrics"}
          [] r = "admin"   -> Permission]

ROLE_PERMISSIONS ==
    [r \in Role |->
        CASE r = "viewer"  -> {"read:market_data"}
          [] r = "analyst" -> {"read:market_data", "read:user_transactions",
                               "read:user_portfolios", "read:risk_metrics"}
          [] r = "admin"   -> Permission]

get_permissions_for_role(role) ==
    IF role \in DOMAIN ROLE_PERMISSIONS THEN ROLE_PERMISSIONS[role] ELSE {}

(***************************************************************************)
(* Settings                                              settings.py       *)
(***************************************************************************)
\* the settings read by the RBAC core; "bogus" is not a member of Role
SettingsSpace ==
    [ALLOW_UNAUTHENTICATED_ACCESS : BOOLEAN,
     DEBUG : BOOLEAN,
     DEFAULT_UNAUTHENTICATED_ROLE : {"admin", "viewer", "bogus"}]

(***************************************************************************)
(* Tokens                                                jwt_auth.py       *)
(*                                                                         *)
(* A token string is a number of leading "Bearer " prefixes followed by a *)
(* body.  A body is the empty string, text that is not a JWT, or a JWT     *)
(* with a signature status and a payload.                                  *)
(***************************************************************************)
\* JWT payload; a claim that is not in the payload has has_* = FALSE
Payload(has_uid, uid, roles) ==
    [has_user_id |-> has_uid, user_id |-> uid, has_sub |-> FALSE, sub |-> NoneInt,
     username |-> "u", email |-> "e", roles |-> roles]

EmptyBody   == [fmt |-> "empty",   sig_ok |-> FALSE, claims |-> Payload(FALSE, NoneInt, <<>>)]
GarbageBody == [fmt |-> "garbage", sig_ok |-> FALSE, claims |-> Payload(FALSE, NoneInt, <<>>)]
Jwt(ok, claims) == [fmt |-> "jwt", sig_ok |-> ok, claims |-> claims]

RoleLists == {<<"admin">>, <<"analyst">>, <<"viewer">>, <<"bogus">>,
              <<"bogus", "analyst">>, <<"viewer", "analyst">>, <<>>}

\* token bodies explored: signed tokens for every role list and user id, a
\* token with a bad signature / expired, a signed token without a user
\* identifier, and non-JWT text
TokenBodies ==
    {Jwt(TRUE, Payload(TRUE, u, rl)) : u \in 1..MaxUserId, rl \in RoleLists}
    \cup {Jwt(FALSE, Payload(TRUE, 1, <<"admin">>)),
          Jwt(TRUE, Payload(FALSE, NoneInt, <<"admin">>)),
          GarbageBody}

Tok(n, body) == [bearer |-> n, body |-> body]

\* Python truthiness of a token string: non-empty
Truthy(tok) == tok.bearer > 0 \/ tok.body.fmt # "empty"

\* token.startswith("Bearer ") ; token[7:]
StripBearer(tok) == IF tok.bearer > 0 THEN [tok EXCEPT !.bearer = @ - 1] ELSE tok

\* outcomes of a call: a value or a raised exception
Ok(v)          == [ok |-> TRUE,  val |-> v, exc |-> "none", msg |-> "none", field |-> "none"]
Raise(cls, m, f) == [ok |-> FALSE, val |-> <<>>, exc |-> cls, msg |-> m, field |-> f]

\* the single element of a one-element set; ValueOf({e(x) : x \in {v}}) is
\* e(v) with v computed once
ValueOf(S) == CHOOSE x \in S : TRUE

decode_token(tok) ==
    IF tok.bearer = 0 /\ tok.body.fmt = "jwt" /\ tok.body.sig_ok
    THEN Ok(tok.body.claims)
    ELSE Raise("ValidationError", "Invalid token", "token")

validate_token(token) ==
    ValueOf({
        IF ~Truthy(t) THEN Raise("ValidationError", "Token is required", "token")
        ELSE ValueOf({
                IF ~p.ok THEN p
                ELSE IF ~p.val.has_user_id /\ ~p.val.has_sub
                THEN Raise("ValidationError", "Token missing user identifier", "token")
                ELSE p :
                p \in {decode_token(t)}}) :
        t \in {StripBearer(token)}})

Identity(uid, name, email, roles) ==
    [user_id |-> uid, username |-> name, email |-> email, roles |-> roles]

extract_user_from_token(token) ==
    ValueOf({
        IF ~p.ok THEN p
        ELSE Ok(Identity(IF p.val.has_user_id /\ p.val.user_id # 0 THEN p.val.user_id
                         ELSE IF p.val.has_sub THEN p.val.sub ELSE NoneInt,
                         p.val.username, p.val.email, p.val.roles)) :
        p \in {validate_token(token)}})

\* jwt.encode of a copy of data with exp (in the future) and iat added, signed
\* with the configured key: the claims of the token are the keys of data
create_access_token(data) ==
    Tok(0, Jwt(TRUE, [has_user_id |-> TRUE, user_id |-> data.user_id,
                      has_sub |-> FALSE, sub |-> NoneInt,
                      username |-> data.username, email |-> data.email,
                      roles |-> data.roles]))

(***************************************************************************)
(* Authentication contexts                                                 *)
(***************************************************************************)
\* a context entry is absent (None / key missing) or holds a token string
Absent == [present |-> FALSE, tok |-> Tok(0, EmptyBody)]
Entry(tok) == [present |-> TRUE, tok |-> tok]
EntryTruthy(e) == e.present /\ Truthy(e.tok)

\* context = None, or a dict with optional "token" and "authorization" keys;
\* extra = the dict holds some other key (or one of the two keys with None)
NoContext == [is_none |-> TRUE, token |-> Absent, authorization |-> Absent, extra |-> FALSE]
Ctx(t, a, x) == [is_none |-> FALSE, token |-> t, authorization |-> a, extra |-> x]

\* Python truthiness of the context: None and {} are falsy
ContextTruthy(c) ==
    ~c.is_none /\ (c.token.present \/ c.authorization.present \/ c.extra)

\* context.get("token") or context.get("authorization")
ContextToken(c) == IF EntryTruthy(c.token) THEN c.token ELSE c.authorization

(***************************************************************************)
(* RBAC enforcement core                                      rbac.py      *)
(***************************************************************************)
AllowUnauth_NoDebug(st) == st.ALLOW_UNAUTHENTICATED_ACCESS

AllowUnauth(st) == st.ALLOW_UNAUTHENTICATED_ACCESS \/ st.DEBUG

AnonymousUser(st) == Identity(0, "anonymous", "", <<st.DEFAULT_UNAUTHENTICATED_ROLE>>)

get_user_from_context(context, st) ==
    IF AllowUnauth(st) /\ ~ContextTruthy(context) THEN Ok(AnonymousUser(st))
    ELSE IF ~ContextTruthy(context)
    THEN Raise("ValidationError", "Authentication context is required", "auth")
    ELSE ValueOf({
            IF AllowUnauth(st) /\ ~EntryTruthy(token) THEN Ok(AnonymousUser(st))
            ELSE IF ~EntryTruthy(token)
            THEN Raise("ValidationError", "Authentication token is required", "auth")
            ELSE extract_user_from_token(StripBearer(token.tok)) :
            token \in {ContextToken(context)}})

ResolveForGate_Fallback(context, st) ==
    ValueOf({
        IF r.ok THEN r
        ELSE IF ~AllowUnauth(st) THEN r
        ELSE Ok(AnonymousUser(st)) :
        r \in {get_user_from_context(context, st)}})

\* the try/except around get_user_from_context shared by both decorators
ResolveForGate(context, st) ==
    ValueOf({
        IF r.ok THEN r
        ELSE IF ContextTruthy(context) /\ EntryTruthy(ContextToken(context))
        THEN Raise("ValidationError", "Invalid or expired authentication token", "auth")
        ELSE IF ~AllowUnauth(st) THEN r
        ELSE Ok(AnonymousUser(st)) :
        r \in {get_user_from_context(context, st)}})

ValidRoles_Default(roles) ==
    IF SelectSeq(roles, LAMBDA r : r \in Role) = <<>> THEN <<"viewer">>
    ELSE SelectSeq(roles, LAMBDA r : r \in Role)

\* [Role(role) for role in roles if role in [r.value for r in Role]]
ValidRoles(roles) == SelectSeq(roles, LAMBDA r : r \in Role)

SeqRange(s) == {s[i] : i \in DOMAIN s}

\* what the wrapped function receives through kwargs
GateKwargs(user, roles, perms) ==
    [current_user |-> user, user_roles |-> roles, user_permissions |-> perms]

require_role_All(allowed_roles, context, st) ==
    ValueOf({
        IF ~r.ok THEN r
        ELSE ValueOf({
                IF user_roles = <<>>
                THEN Raise("ValidationError", "User has no valid roles", "auth")
                ELSE IF ~(allowed_roles \subseteq SeqRange(user_roles))
                THEN Raise("ValidationError", "Access denied. Required roles", "auth")
                ELSE Ok(GateKwargs(r.val, user_roles, {})) :
                user_roles \in {ValidRoles(r.val.roles)}}) :
        r \in {ResolveForGate(context, st)}})

\* require_role(*allowed_roles): Ok(kwargs) when func is invoked
require_role(allowed_roles, context, st) ==
    ValueOf({
        IF ~r.ok THEN r
        ELSE ValueOf({
                IF user_roles = <<>>
                THEN Raise("ValidationError", "User has no valid roles", "auth")
                ELSE IF ~(\E i \in DOMAIN user_roles : user_roles[i] \in allowed_roles)
                THEN Raise("ValidationError", "Access denied. Required roles", "auth")
                ELSE Ok(GateKwargs(r.val, user_roles, {})) :
                user_roles \in {ValidRoles(r.val.roles)}}) :
        r \in {ResolveForGate(context, st)}})

UserPermissions_FirstRole(user_roles) ==
    IF user_roles = <<>> THEN {} ELSE get_permissions_for_role(user_roles[1])

UserPermissions(user_roles) ==
    UNION {get_permissions_for_role(user_roles[i]) : i \in DOMAIN user_roles}

\* require_permission(*required_permissions): Ok(kwargs) when func is invoked
require_permission(required_permissions, context, st) ==
    ValueOf({
        IF ~r.ok THEN r
        ELSE ValueOf({
                IF user_roles = <<>>
                THEN Raise("ValidationError", "User has no valid roles", "auth")
                ELSE ValueOf({
                        IF required_permissions \ user_permissions # {}
                        THEN [Raise("ValidationError", "Missing required permissions",
                                    "auth")
                                EXCEPT !.val = required_permissions \ user_permissions]
                        ELSE Ok(GateKwargs(r.val, user_roles, user_permissions)) :
                        user_permissions \in {UserPermissions(user_roles)}}) :
                user_roles \in {ValidRoles(r.val.roles)}}) :
        r \in {ResolveForGate(context, st)}})

check_user_access_AnyAnalyst(user_id, current_user, user_roles) ==
    "admin" \in SeqRange(user_roles) \/ "analyst" \in SeqRange(user_roles)

check_user_access(user_id, current_user, user_roles) ==
    IF "admin" \in SeqRange(user_roles) THEN TRUE
    ELSE IF "analyst" \in SeqRange(user_roles) THEN user_id = current_user.user_id
    ELSE FALSE

enforce_user_access_NoSkip(user_id, current_user, user_roles) ==
    IF ~check_user_access(user_id, current_user, user_roles)
    THEN Raise("ValidationError", "Access denied. User cannot access data for user", "auth")
    ELSE Ok(<<>>)

\* Ok when it returns, the access-denied ValidationError otherwise
enforce_user_access(user_id, current_user, user_roles) ==
    IF user_id = NoneInt THEN Ok(<<>>)
    ELSE IF ~check_user_access(user_id, current_user, user_roles)
    THEN Raise("ValidationError", "Access denied. User cannot access data for user", "auth")
    ELSE Ok(<<>>)

(***************************************************************************)
(* Text: a query is the sequence of its characters                         *)
(***************************************************************************)
UpperChars == <<"A","B","C","D","E","F","G","H","I","J","K","L","M",
                "N","O","P","Q","R","S","T","U","V","W","X","Y","Z">>
LowerChars == <<"a","b","c","d","e","f","g","h","i","j","k","l","m",
                "n","o","p","q","r","s","t","u","v","w","x","y","z">>
DigitChars == <<"0","1","2","3","4","5","6","7","8","9">>

IsUpper(c) == \E i \in DOMAIN UpperChars : UpperChars[i] = c
IsDigit(c) == \E i \in DOMAIN DigitChars : DigitChars[i] = c
IsSpace(c) == c = " "
\* \w of the regular expressions
IsWordChar(c) ==
    IsUpper(c) \/ (\E i \in DOMAIN LowerChars : LowerChars[i] = c) \/ IsDigit(c) \/ c = "_"

\* int() of a digit
DigitVal(c) == (CHOOSE i \in DOMAIN DigitChars : DigitChars[i] = c) - 1

\* str.lower(), character by character
LowerChar(c) ==
    IF IsUpper(c) THEN LowerChars[CHOOSE i \in DOMAIN UpperChars : UpperChars[i] = c]
    ELSE c

\* pat occurs in s.lower() at position i (a re.IGNORECASE match of a
\* lower-case literal)
MatchAtLower(s, i, pat) ==
    /\ i >= 1
    /\ i + Len(pat) - 1 <= Len(s)
    /\ \A k \in 1..Len(pat) : LowerChar(s[i + k - 1]) = pat[k]

\* pat in s.lower()
Contains(s, pat) == \E i \in 1..(Len(s) + 1) : MatchAtLower(s, i, pat)

\* any(kw in s.lower() for kw in kws)
ContainsAny(s, kws) == \E kw \in kws : Contains(s, kw)

\* index of the first character at or after i that is not white space
SkipSpaces(s, i) ==
    CHOOSE j \in i..(Len(s) + 1) :
        /\ \A k \in i..(j - 1) : IsSpace(s[k])
        /\ (j = Len(s) + 1 \/ ~IsSpace(s[j]))

\* index after the longest run of digits that starts at i
DigitsEnd(s, i) ==
    CHOOSE j \in i..(Len(s) + 1) :
        /\ \A k \in i..(j - 1) : IsDigit(s[k])
        /\ (j = Len(s) + 1 \/ ~IsDigit(s[j]))

\* int() of the digits s[i..j-1]
RECURSIVE ParseInt(_, _, _)
ParseInt(s, i, j) ==
    IF j <= i THEN 0 ELSE ParseInt(s, i, j - 1) * 10 + DigitVal(s[j - 1])

\* position of the digits matched by  lit \s+ mid sep (\d+)  at position i of
\* s (case-insensitive), 0 when there is no match at i; sep = TRUE puts \s+
\* between mid and the digits
NumberAfter(s, i, lit, mid, sep) ==
    IF ~MatchAtLower(s, i, lit) THEN 0
    ELSE ValueOf({
            IF b > i + Len(lit) /\ MatchAtLower(s, b, mid)
            THEN ValueOf({IF (sep => d > b + Len(mid)) /\ d <= Len(s) /\ IsDigit(s[d])
                          THEN d ELSE 0 :
                          d \in {IF sep THEN SkipSpaces(s, b + Len(mid))
                                 ELSE b + Len(mid)}})
            ELSE 0 :
            b \in {SkipSpaces(s, i + Len(lit))}})

\* re.search(lit \s+ mid sep (\d+), s, re.IGNORECASE): the integer of group 1
\* of the leftmost match, NoneInt when nothing matches
SearchNumber(s, lit, mid, sep) ==
    ValueOf({
        IF hits = {} THEN NoneInt
        ELSE ValueOf({ParseInt(s, d, e) :
                 <<d, e>> \in {<<x, DigitsEnd(s, x)>> :
                    x \in {NumberAfter(s, CHOOSE h \in hits : \A g \in hits : h <= g,
                                       lit, mid, sep)}}}) :
        hits \in {{i \in 1..Len(s) : NumberAfter(s, i, lit, mid, sep) # 0}}})

(***************************************************************************)
(* Tool registry                                              tools.py     *)
(***************************************************************************)
ToolNames == {"query_transactions", "analyze_risk_metrics", "get_market_summary"}

\* tool arguments; NoneInt / <<>> / "none" stand for a key that is not given.
\* filters: the date and risk-score filters ("invalid" = a malformed date or a
\* risk score outside [0,1])
\* has_symbols / period: the "symbols" and "period" keys of get_market_summary
NoArgs == [user_id |-> NoneInt, portfolio_id |-> NoneInt, period_days |-> NoneInt,
           has_symbols |-> FALSE, symbols |-> <<>>, period |-> "none",
           filters |-> "none"]

\* rendered text of a result: the fixed prefix call_tool puts before the
\* message, the message, and the data the text mentions
Text(prefix, detail, pid, uids, syms) ==
    [prefix |-> prefix, detail |-> detail, portfolio_id |-> pid,
     user_ids |-> uids, symbols |-> syms]

\* what a tool function does: returns an envelope or raises; invoked = the
\* wrapped function body ran; queried = the query layer was called
ToolReturn(isError, text, queried) ==
    [raised |-> FALSE, isError |-> isError, text |-> text, exc |-> "none",
     invoked |-> TRUE, queried |-> queried]
ToolRaise(exc, msg, invoked, queried) ==
    [raised |-> TRUE, isError |-> TRUE, text |-> Text("none", msg, NoneInt, {}, <<>>),
     exc |-> exc, invoked |-> invoked, queried |-> queried]

\* the permissions named by each tool's @require_permission decorator
RequiredPermissions(name) ==
    CASE name = "query_transactions"   -> {"read:transactions", "read:user_transactions"}
      [] name = "analyze_risk_metrics" -> {"read:risk_metrics"}
      [] name = "get_market_summary"   -> {"read:market_data"}

query_transactions_body(arguments, kw, db) ==
    ValueOf({
        IF ~own.ok THEN ToolRaise("ValidationError", own.msg, TRUE, FALSE)
        ELSE IF arguments.filters = "invalid"
        THEN ToolRaise("ValidationError", "Invalid filter value", TRUE, FALSE)
        ELSE CASE db.query = "rows" ->
                    ToolReturn(FALSE, Text("Transaction ID", "rows", NoneInt,
                        IF arguments.user_id # NoneInt THEN {arguments.user_id}
                        ELSE 1..MaxUserId, <<>>), TRUE)
               [] db.query = "empty" ->
                    ToolReturn(FALSE, Text("No transactions found matching the criteria",
                        "empty", NoneInt, {}, <<>>), TRUE)
               [] db.query = "DatabaseQueryError" ->
                    ToolRaise("DatabaseQueryError", "Failed to query transactions", TRUE, TRUE)
               [] OTHER ->
                    ToolRaise("MCPToolError", "Unexpected error", TRUE, TRUE) :
        own \in {IF arguments.user_id # NoneInt /\ "admin" \notin SeqRange(kw.user_roles)
                 THEN enforce_user_access(arguments.user_id, kw.current_user,
                                          kw.user_roles)
                 ELSE Ok(<<>>)}})

_query_transactions(arguments, context, st, db) ==
    ValueOf({
        IF ~g.ok THEN ToolRaise(g.exc, g.msg, FALSE, FALSE)
        ELSE query_transactions_body(arguments, g.val, db) :
        g \in {require_permission(RequiredPermissions("query_transactions"),
                                  context, st)}})

_analyze_risk_metrics(arguments, context, st, db) ==
    ValueOf({
        IF ~g.ok THEN ToolRaise(g.exc, g.msg, FALSE, FALSE)
        ELSE IF arguments.portfolio_id = NoneInt \/ db.portfolio = "missing"
        THEN ToolReturn(TRUE, Text("Portfolio not found", "none", NoneInt, {}, <<>>), TRUE)
        ELSE IF db.query \in {"DatabaseQueryError", "DatabaseError"}
        THEN ToolRaise(db.query, "Failed to query", TRUE, TRUE)
        ELSE ToolReturn(FALSE, Text("Portfolio Risk Analysis", "metrics",
                                    arguments.portfolio_id, {}, <<>>), TRUE) :
        g \in {require_permission(RequiredPermissions("analyze_risk_metrics"),
                                  context, st)}})

_get_market_summary_Ungated(arguments, context, st, db) ==
    IF db.query = "DatabaseQueryError"
    THEN ToolRaise("DatabaseQueryError", "Failed to aggregate", TRUE, TRUE)
    ELSE IF db.query = "DatabaseError"
    THEN ToolRaise("MCPToolError", "Unexpected error", TRUE, TRUE)
    ELSE ToolReturn(FALSE, Text("Market Summary", "summary", NoneInt, {},
                                arguments.symbols), TRUE)

_get_market_summary(arguments, context, st, db) ==
    ValueOf({
        IF ~g.ok THEN ToolRaise(g.exc, g.msg, FALSE, FALSE)
        ELSE IF db.query = "DatabaseQueryError"
        THEN ToolRaise("DatabaseQueryError", "Failed to aggregate", TRUE, TRUE)
        ELSE IF db.query = "DatabaseError"
        THEN ToolRaise("MCPToolError", "Unexpected error", TRUE, TRUE)
        ELSE ToolReturn(FALSE, Text("Market Summary", "summary", NoneInt, {},
                                    arguments.symbols), TRUE) :
        g \in {require_permission(RequiredPermissions("get_market_summary"),
                                  context, st)}})

\* the except clauses of call_tool: the prefix of the isError text
ExceptPrefix(exc) ==
    CASE exc \in {"DatabaseConnectionError", "DatabaseQueryError"} -> "Database error in tool"
      [] exc = "ValidationError" -> "Validation error in tool"
      [] exc = "NotFoundError"   -> "Resource not found in tool"
      [] exc = "MCPToolError"    -> "MCP tool error"
      [] OTHER                   -> "Unexpected error in tool"

call_tool_LeakOnRaise(name, arguments, context, st, db) ==
    IF ~db.initialized
    THEN [isError |-> TRUE,
          text |-> Text(ExceptPrefix("DatabaseConnectionError"), "Database not initialized",
                        NoneInt, {}, <<>>),
          opened |-> 0, closed |-> 0, invoked |-> FALSE, queried |-> FALSE,
          raised |-> FALSE]
    ELSE ValueOf({
            [isError |-> r.isError,
             text |-> IF r.raised THEN [r.text EXCEPT !.prefix = ExceptPrefix(r.exc)]
                      ELSE r.text,
             opened |-> 1, closed |-> IF r.raised THEN 0 ELSE 1, invoked |-> r.invoked, queried |-> r.queried,
             raised |-> FALSE] :
            r \in {CASE name = "query_transactions" ->
                        _query_transactions(arguments, context, st, db)
                    [] name = "analyze_risk_metrics" ->
                        _analyze_risk_metrics(arguments, context, st, db)
                    [] name = "get_market_summary" ->
                        _get_market_summary(arguments, context, st, db)
                    [] OTHER -> ToolRaise("MCPToolError", "Unknown tool", FALSE, FALSE)}})

call_tool_Reraise(name, arguments, context, st, db) ==
    IF ~db.initialized
    THEN [isError |-> TRUE,
          text |-> Text(ExceptPrefix("DatabaseConnectionError"), "Database not initialized",
                        NoneInt, {}, <<>>),
          opened |-> 0, closed |-> 0, invoked |-> FALSE, queried |-> FALSE,
          raised |-> FALSE]
    ELSE ValueOf({
            [isError |-> r.isError,
             text |-> IF r.raised THEN [r.text EXCEPT !.prefix = ExceptPrefix(r.exc)]
                      ELSE r.text,
             opened |-> 1, closed |-> 1, invoked |-> r.invoked, queried |-> r.queried,
             raised |-> r.raised] :
            r \in {CASE name = "query_transactions" ->
                        _query_transactions(arguments, context, st, db)
                    [] name = "analyze_risk_metrics" ->
                        _analyze_risk_metrics(arguments, context, st, db)
                    [] name = "get_market_summary" ->
                        _get_market_summary(arguments, context, st, db)
                    [] OTHER -> ToolRaise("MCPToolError", "Unknown tool", FALSE, FALSE)}})

\* call_tool: the envelope returned, with the session bookkeeping of the call;
\* raised = an exception left call_tool (every except clause returns)
call_tool(name, arguments, context, st, db) ==
    IF ~db.initialized
    THEN [isError |-> TRUE,
          text |-> Text(ExceptPrefix("DatabaseConnectionError"), "Database not initialized",
                        NoneInt, {}, <<>>),
          opened |-> 0, closed |-> 0, invoked |-> FALSE, queried |-> FALSE,
          raised |-> FALSE]
    ELSE ValueOf({
            [isError |-> r.isError,
             text |-> IF r.raised THEN [r.text EXCEPT !.prefix = ExceptPrefix(r.exc)]
                      ELSE r.text,
             opened |-> 1, closed |-> 1, invoked |-> r.invoked, queried |-> r.queried,
             raised |-> FALSE] :
            r \in {CASE name = "query_transactions" ->
                        _query_transactions(arguments, context, st, db)
                    [] name = "analyze_risk_metrics" ->
                        _analyze_risk_metrics(arguments, context, st, db)
                    [] name = "get_market_summary" ->
                        _get_market_summary(arguments, context, st, db)
                    [] OTHER -> ToolRaise("MCPToolError", "Unknown tool", FALSE, FALSE)}})

\* "Access denied" occurs in the rendered text
TextHasAccessDenied(text) ==
    text.detail \in {"Access denied. Required roles",
                     "Access denied. User cannot access data for user"}

(***************************************************************************)
(* Mock orchestrator: query parsing               mock_orchestrator.py     *)
(***************************************************************************)
RiskKeywords ==
    {<<"r","i","s","k">>,
     <<"p","o","r","t","f","o","l","i","o">>,
     <<"a","n","a","l","y","z","e">>,
     <<"m","e","t","r","i","c","s">>,
     <<"v","o","l","a","t","i","l","i","t","y">>,
     <<"s","h","a","r","p","e">>}
PortfolioQueryKeywords ==
    {<<"p","o","r","t","f","o","l","i","o">>,
     <<"r","i","s","k">>,
     <<"a","n","a","l","y","z","e">>,
     <<"m","e","t","r","i","c","s">>}
MarketQueryKeywords ==
    {<<"m","a","r","k","e","t">>,
     <<"p","r","i","c","e">>,
     <<"s","t","o","c","k">>,
     <<"s","y","m","b","o","l">>,
     <<"h","o","l","d","i","n","g","s">>}
transaction_keywords ==
    {<<"t","r","a","n","s","a","c","t","i","o","n">>,
     <<"t","r","a","n","s","a","c","t","i","o","n","s">>,
     <<"t","r","a","d","e">>,
     <<"t","r","a","d","e","s">>,
     <<"s","p","e","n","d","i","n","g">>,
     <<"p","u","r","c","h","a","s","e">>}
HoldingsKeywords ==
    {<<"h","o","l","d","i","n","g","s">>,
     <<"i","t","s"," ","h","o","l","d","i","n","g","s">>,
     <<"p","o","r","t","f","o","l","i","o"," ","h","o","l","d","i","n","g","s">>}
MarketKeywords ==
    {<<"m","a","r","k","e","t">>,
     <<"p","r","i","c","e">>,
     <<"s","t","o","c","k">>,
     <<"s","y","m","b","o","l">>,
     <<"t","r","a","d","i","n","g">>,
     <<"v","o","l","u","m","e">>,
     <<"p","e","r","f","o","r","m","i","n","g">>}
MarketContextKeywords ==
    {<<"m","a","r","k","e","t">>,
     <<"s","t","o","c","k">>,
     <<"p","r","i","c","e">>,
     <<"s","y","m","b","o","l">>,
     <<"t","r","a","d","i","n","g">>}
ChainParseKeywords ==
    {<<"m","a","r","k","e","t">>,
     <<"p","r","i","c","e">>,
     <<"h","o","l","d","i","n","g","s">>,
     <<"s","t","o","c","k">>}
ChainKeywords ==
    {<<"m","a","r","k","e","t">>,
     <<"p","r","i","c","e">>,
     <<"h","o","l","d","i","n","g","s">>,
     <<"s","t","o","c","k">>,
     <<"s","y","m","b","o","l">>}
common_words ==
    {<<"T","H","E">>,
     <<"A","N","D">>,
     <<"F","O","R">>,
     <<"W","I","T","H">>,
     <<"F","R","O","M">>,
     <<"T","H","I","S">>,
     <<"T","H","A","T">>,
     <<"A","R","E">>,
     <<"W","A","S">>,
     <<"W","E","R","E">>,
     <<"B","E","E","N">>,
     <<"H","A","V","E">>,
     <<"H","A","S">>,
     <<"H","A","D">>,
     <<"B","U","T">>,
     <<"N","O","T">>,
     <<"C","A","N">>,
     <<"W","I","L","L">>,
     <<"A","L","L">>,
     <<"Y","O","U">>,
     <<"Y","O","U","R">>}
\* the literals the parser looks for
Lit ==
    [w_portfolio |-> <<"p","o","r","t","f","o","l","i","o">>,
     w_id |-> <<"i","d">>,
     w_hash |-> <<"#">>,
     w_number |-> <<"n","u","m","b","e","r">>,
     w_user |-> <<"u","s","e","r">>,
     w_recent |-> <<"r","e","c","e","n","t">>,
     w_find |-> <<"f","i","n","d">>,
     w_transaction |-> <<"t","r","a","n","s","a","c","t","i","o","n">>,
     w_transactions |-> <<"t","r","a","n","s","a","c","t","i","o","n","s">>,
     w_hour |-> <<"h","o","u","r">>,
     w_week |-> <<"w","e","e","k">>,
     w_month |-> <<"m","o","n","t","h">>,
     w_AAPL |-> <<"A","A","P","L">>,
     w_day |-> <<"d","a","y">>,
     w_last_week |-> <<"l","a","s","t"," ","w","e","e","k">>,
     w_past_week |-> <<"p","a","s","t"," ","w","e","e","k">>,
     w_last_month |-> <<"l","a","s","t"," ","m","o","n","t","h">>,
     w_past_month |-> <<"p","a","s","t"," ","m","o","n","t","h">>,
     w_last_year |-> <<"l","a","s","t"," ","y","e","a","r">>,
     w_past_year |-> <<"p","a","s","t"," ","y","e","a","r">>]
DateRiskKeywords ==
    {<<"y","e","s","t","e","r","d","a","y">>,
     <<"t","o","d","a","y">>,
     <<"l","a","s","t"," ","w","e","e","k">>,
     <<"p","a","s","t"," ","w","e","e","k">>,
     <<"l","a","s","t"," ","m","o","n","t","h">>,
     <<"p","a","s","t"," ","m","o","n","t","h">>,
     <<"r","e","c","e","n","t">>,
     <<"h","i","g","h"," ","r","i","s","k">>,
     <<"h","i","g","h","-","r","i","s","k">>,
     <<"r","i","s","k","y">>,
     <<"l","o","w"," ","r","i","s","k">>,
     <<"l","o","w","-","r","i","s","k">>,
     <<"s","a","f","e">>,
     <<"m","e","d","i","u","m"," ","r","i","s","k">>,
     <<"m","o","d","e","r","a","t","e"," ","r","i","s","k">>}

ToolCall(name, arguments) == [name |-> name, arguments |-> arguments]

\* the patterns of _extract_portfolio_id, tried in this order
_extract_portfolio_id(query) ==
    ValueOf({IF p1 # NoneInt THEN p1
             ELSE IF p2 # NoneInt THEN p2
             ELSE IF p3 # NoneInt THEN p3
             ELSE p4 :
             p1 \in {SearchNumber(query, Lit.w_portfolio, <<>>, FALSE)},
             p2 \in {SearchNumber(query, Lit.w_portfolio, Lit.w_id, TRUE)},
             p3 \in {SearchNumber(query, Lit.w_portfolio, Lit.w_hash, FALSE)},
             p4 \in {SearchNumber(query, Lit.w_portfolio, Lit.w_number, TRUE)}})

\* re.search(r'(\d+)\s*days?'): the integer of the leftmost match
SearchDays(query) ==
    ValueOf({
        IF hits = {} THEN NoneInt
        ELSE ValueOf({ParseInt(query, i, e) :
                 <<i, e>> \in {<<x, DigitsEnd(query, x)>> :
                    x \in {CHOOSE h \in hits : \A g \in hits : h <= g}}}) :
        hits \in {{i \in 1..Len(query) :
                    /\ IsDigit(query[i])
                    /\ MatchAtLower(query, SkipSpaces(query, DigitsEnd(query, i)),
                                    Lit.w_day)}}})

_extract_period_days(query) ==
    ValueOf({
        IF days # NoneInt THEN days
        ELSE IF Contains(query, Lit.w_last_week) \/ Contains(query, Lit.w_past_week) THEN 7
        ELSE IF Contains(query, Lit.w_last_month) \/ Contains(query, Lit.w_past_month) THEN 30
        ELSE IF Contains(query, Lit.w_last_year) \/ Contains(query, Lit.w_past_year) THEN 365
        ELSE NoneInt :
        days \in {SearchDays(query)}})

\* user_id from the query or the caller's default; the date and risk filters
\* the parser derives are always well-formed
_extract_transaction_args(query, default_user_id) ==
    ValueOf({
        [NoArgs EXCEPT
            !.user_id = IF u # NoneInt THEN u
                        ELSE IF default_user_id # NoneInt /\ default_user_id # 0
                             THEN default_user_id ELSE NoneInt,
            !.filters = IF ContainsAny(query, DateRiskKeywords)
                        THEN "valid" ELSE "none"] :
        u \in {SearchNumber(query, Lit.w_user, <<>>, FALSE)}})

\* a match of \b([A-Z]{2,5})\b starts at i and has length n
SymbolAt(query, i, n) ==
    /\ i + n - 1 <= Len(query)
    /\ \A k \in i..(i + n - 1) : IsUpper(query[k])
    /\ (i = 1 \/ ~IsWordChar(query[i - 1]))
    /\ (i + n - 1 = Len(query) \/ ~IsWordChar(query[i + n]))

\* re.findall(r'\b([A-Z]{2,5})\b', query), in order, without the common words
FindSymbols(query) ==
    ValueOf({
        SelectSeq([k \in 1..Cardinality(starts) |->
                      ValueOf({SubSeq(query, i, i + (CHOOSE m \in 2..5 :
                                                       SymbolAt(query, i, m)) - 1) :
                               i \in {h \in starts :
                                        Cardinality({j \in starts : j < h}) = k - 1}})],
                  LAMBDA w : w \notin common_words) :
        starts \in {{i \in 1..Len(query) : \E n \in 2..5 : SymbolAt(query, i, n)}}})

_extract_market_args(query) ==
    ValueOf({
        [NoArgs EXCEPT
            !.has_symbols = keep,
            !.symbols = IF keep THEN SubSeq(symbols, 1, IF Len(symbols) < 10
                                                        THEN Len(symbols) ELSE 10)
                        ELSE <<>>,
            !.period = IF Contains(query, Lit.w_hour) THEN "hour"
                       ELSE IF Contains(query, Lit.w_week) THEN "week"
                       ELSE IF Contains(query, Lit.w_month) THEN "month"
                       ELSE "day"] :
        <<symbols, keep>> \in
            {<<x, x # <<>> /\ ContainsAny(query, MarketContextKeywords)>> :
                x \in {FindSymbols(query)}}})

\* ToolResult kept by the orchestrator
ToolResult(tool_name, result, is_error, arguments) ==
    [tool_name |-> tool_name, result |-> result, is_error |-> is_error,
     arguments |-> arguments]

\* the portfolio id is recovered from the rendered text (Portfolio\s+(\d+)) and
\* the holdings are read through the query layer; holdings is what that lookup
\* yields (<<>> when it fails)
_extract_symbols_from_portfolio_result(result_text, holdings) ==
    IF result_text.portfolio_id = NoneInt THEN <<>> ELSE holdings

\* extracted["portfolio_symbols"] after the scan of all results: the symbols of
\* the last successful analyze_risk_metrics result that yields any
PortfolioSymbols(tool_results, holdings) ==
    ValueOf({
        IF idx = {} THEN <<>>
        ELSE _extract_symbols_from_portfolio_result(
                 tool_results[CHOOSE i \in idx : \A j \in idx : j <= i].result, holdings) :
        idx \in {{i \in DOMAIN tool_results :
                    /\ tool_results[i].tool_name = "analyze_risk_metrics"
                    /\ ~tool_results[i].is_error
                    /\ _extract_symbols_from_portfolio_result(
                           tool_results[i].result, holdings) # <<>>}}})

_extract_data_from_results(tool_results, holdings) ==
    [portfolio_symbols |-> PortfolioSymbols(tool_results, holdings)]

\* the arguments of the last get_market_summary result, NoArgs if there is none
LastMarketResult(results) ==
    ValueOf({
        IF idx = {} THEN [found |-> FALSE, arguments |-> NoArgs]
        ELSE [found |-> TRUE,
              arguments |-> results[CHOOSE i \in idx : \A j \in idx : j <= i].arguments] :
        idx \in {{i \in DOMAIN results : results[i].tool_name = "get_market_summary"}}})

ChainedMarketCall(symbols) ==
    ToolCall("get_market_summary",
             [NoArgs EXCEPT !.has_symbols = TRUE, !.symbols = symbols, !.period = "day"])

NormalParseWith_SuppressAlways(query, default_user_id, has_previous, pid, period, market_args) ==
    LET query_lower == query   \* the keyword tests lower-case the query
        risk == IF ContainsAny(query_lower, RiskKeywords) /\ pid # NoneInt /\ pid # 0
                THEN <<ToolCall("analyze_risk_metrics",
                         [NoArgs EXCEPT !.portfolio_id = pid,
                             !.period_days = IF period # 0 THEN period ELSE NoneInt])>>
                ELSE <<>>
        is_portfolio_query == ContainsAny(query_lower, PortfolioQueryKeywords)
        is_market_query    == ContainsAny(query_lower, MarketQueryKeywords)
        has_explicit_transaction_keyword == ContainsAny(query_lower, transaction_keywords)
        has_transaction_pattern ==
            \/ Contains(query_lower, Lit.w_recent) /\
                 (Contains(query_lower, Lit.w_transaction) \/ Contains(query_lower, Lit.w_transactions))
            \/ Contains(query_lower, Lit.w_find) /\
                 (Contains(query_lower, Lit.w_transaction) \/ Contains(query_lower, Lit.w_transactions))
        tx == IF /\ (has_explicit_transaction_keyword \/ has_transaction_pattern)
                 /\ ~(is_portfolio_query /\ is_market_query)
              THEN <<ToolCall("query_transactions",
                              _extract_transaction_args(query, default_user_id))>>
              ELSE <<>>
        portfolio_id == IF has_previous THEN NoneInt ELSE pid
        is_portfolio_holdings_query ==
            portfolio_id # NoneInt /\ ContainsAny(query_lower, HoldingsKeywords)
        mkt == IF /\ ContainsAny(query_lower, MarketKeywords)
                  /\ (~is_portfolio_holdings_query \/ market_args.has_symbols)
               THEN <<ToolCall("get_market_summary", market_args)>>
               ELSE <<>>
    IN  risk \o tx \o mkt

NormalParseWith_NoHoldingsRule(query, default_user_id, has_previous, pid, period, market_args) ==
    LET query_lower == query   \* the keyword tests lower-case the query
        risk == IF ContainsAny(query_lower, RiskKeywords) /\ pid # NoneInt /\ pid # 0
                THEN <<ToolCall("analyze_risk_metrics",
                         [NoArgs EXCEPT !.portfolio_id = pid,
                             !.period_days = IF period # 0 THEN period ELSE NoneInt])>>
                ELSE <<>>
        is_portfolio_query == ContainsAny(query_lower, PortfolioQueryKeywords)
        is_market_query    == ContainsAny(query_lower, MarketQueryKeywords)
        has_explicit_transaction_keyword == ContainsAny(query_lower, transaction_keywords)
        has_transaction_pattern ==
            \/ Contains(query_lower, Lit.w_recent) /\
                 (Contains(query_lower, Lit.w_transaction) \/ Contains(query_lower, Lit.w_transactions))
            \/ Contains(query_lower, Lit.w_find) /\
                 (Contains(query_lower, Lit.w_transaction) \/ Contains(query_lower, Lit.w_transactions))
        tx == IF /\ (has_explicit_transaction_keyword \/ has_transaction_pattern)
                 /\ ~(is_portfolio_query /\ is_market_query
                        /\ ~has_explicit_transaction_keyword)
              THEN <<ToolCall("query_transactions",
                              _extract_transaction_args(query, default_user_id))>>
              ELSE <<>>
        portfolio_id == IF has_previous THEN NoneInt ELSE pid
        is_portfolio_holdings_query ==
            portfolio_id # NoneInt /\ ContainsAny(query_lower, HoldingsKeywords)
        mkt == IF ContainsAny(query_lower, MarketKeywords)
               THEN <<ToolCall("get_market_summary", market_args)>>
               ELSE <<>>
    IN  risk \o tx \o mkt

\* the normal parsing of _parse_query_to_tools (no chaining return), given
\* the portfolio id, period and market arguments extracted from the query
NormalParseWith(query, default_user_id, has_previous, pid, period, market_args) ==
    LET query_lower == query   \* the keyword tests lower-case the query
        risk == IF ContainsAny(query_lower, RiskKeywords) /\ pid # NoneInt /\ pid # 0
                THEN <<ToolCall("analyze_risk_metrics",
                         [NoArgs EXCEPT !.portfolio_id = pid,
                             !.period_days = IF period # 0 THEN period ELSE NoneInt])>>
                ELSE <<>>
        is_portfolio_query == ContainsAny(query_lower, PortfolioQueryKeywords)
        is_market_query    == ContainsAny(query_lower, MarketQueryKeywords)
        has_explicit_transaction_keyword == ContainsAny(query_lower, transaction_keywords)
        has_transaction_pattern ==
            \/ Contains(query_lower, Lit.w_recent) /\
                 (Contains(query_lower, Lit.w_transaction) \/ Contains(query_lower, Lit.w_transactions))
            \/ Contains(query_lower, Lit.w_find) /\
                 (Contains(query_lower, Lit.w_transaction) \/ Contains(query_lower, Lit.w_transactions))
        tx == IF /\ (has_explicit_transaction_keyword \/ has_transaction_pattern)
                 /\ ~(is_portfolio_query /\ is_market_query
                        /\ ~has_explicit_transaction_keyword)
              THEN <<ToolCall("query_transactions",
                              _extract_transaction_args(query, default_user_id))>>
              ELSE <<>>
        portfolio_id == IF has_previous THEN NoneInt ELSE pid
        is_portfolio_holdings_query ==
            portfolio_id # NoneInt /\ ContainsAny(query_lower, HoldingsKeywords)
        mkt == IF /\ ContainsAny(query_lower, MarketKeywords)
                  /\ (~is_portfolio_holdings_query \/ market_args.has_symbols)
               THEN <<ToolCall("get_market_summary", market_args)>>
               ELSE <<>>
    IN  risk \o tx \o mkt

NormalParse(query, default_user_id, has_previous) ==
    ValueOf({NormalParseWith(query, default_user_id, has_previous, pid, period, margs) :
                pid \in {_extract_portfolio_id(query)},
                period \in {_extract_period_days(query)},
                margs \in {_extract_market_args(query)}})

(***************************************************************************)
(* Queries explored                                                        *)
(***************************************************************************)
\* the query strings of the calls explored, by name
Q ==
    [ \* "Analyze portfolio 2"
     AnalyzePortfolio2 |->
        <<"A","n","a","l","y","z","e"," ","p","o","r","t","f","o","l","i","o"," ","2">>,
     \* "Show transactions for user 5"
     ShowTransactionsUser5 |->
        <<"S","h","o","w"," ","t","r","a","n","s","a","c","t","i","o","n","s"," ","f","o","r"," ","u","s","e","r"," ","5">>,
     \* "Get market summary for AAPL"
     MarketSummaryAAPL |->
        <<"G","e","t"," ","m","a","r","k","e","t"," ","s","u","m","m","a","r","y"," ","f","o","r"," ","A","A","P","L">>,
     \* "Gibberish with no keywords"
     Gibberish |->
        <<"G","i","b","b","e","r","i","s","h"," ","w","i","t","h"," ","n","o"," ","k","e","y","w","o","r","d","s">>,
     \* "Analyze portfolio 1 and show market data"
     AnalyzeAndMarket |->
        <<"A","n","a","l","y","z","e"," ","p","o","r","t","f","o","l","i","o"," ","1"," ","a","n","d"," ","s","h","o","w"," ","m","a","r","k","e","t"," ","d","a","t","a">>,
     \* "Show high risk transactions and portfolio 2 risk"
     RiskTransactions |->
        <<"S","h","o","w"," ","h","i","g","h"," ","r","i","s","k"," ","t","r","a","n","s","a","c","t","i","o","n","s"," ","a","n","d"," ","p","o","r","t","f","o","l","i","o"," ","2"," ","r","i","s","k">>,
     \* "Show transactions"
     Transactions |->
        <<"S","h","o","w"," ","t","r","a","n","s","a","c","t","i","o","n","s">>,
     \* "Analyze portfolio 1 holdings"
     AnalyzeHoldings |->
        <<"A","n","a","l","y","z","e"," ","p","o","r","t","f","o","l","i","o"," ","1"," ","h","o","l","d","i","n","g","s">>,
     \* "Show TRADES"
     Trades |->
        <<"S","h","o","w"," ","T","R","A","D","E","S">>,
     \* "Portfolio 1 market transactions"
     PortfolioMarketTransactions |->
        <<"P","o","r","t","f","o","l","i","o"," ","1"," ","m","a","r","k","e","t"," ","t","r","a","n","s","a","c","t","i","o","n","s">>,
     \* "My spending"
     Spending |->
        <<"M","y"," ","s","p","e","n","d","i","n","g">>,
     \* "Find recent items"
     FindRecent |->
        <<"F","i","n","d"," ","r","e","c","e","n","t"," ","i","t","e","m","s">>,
     \* "Portfolio 1 holdings market"
     HoldingsMarket |->
        <<"P","o","r","t","f","o","l","i","o"," ","1"," ","h","o","l","d","i","n","g","s"," ","m","a","r","k","e","t">>,
     \* "Portfolio 1 holdings price AAPL"
     HoldingsPriceAAPL |->
        <<"P","o","r","t","f","o","l","i","o"," ","1"," ","h","o","l","d","i","n","g","s"," ","p","r","i","c","e"," ","A","A","P","L">>,
     \* "Portfolio 1 holdings volume AAPL"
     HoldingsVolumeAAPL |->
        <<"P","o","r","t","f","o","l","i","o"," ","1"," ","h","o","l","d","i","n","g","s"," ","v","o","l","u","m","e"," ","A","A","P","L">>,
     \* "Analyze portfolio 0"
     Portfolio0 |->
        <<"A","n","a","l","y","z","e"," ","p","o","r","t","f","o","l","i","o"," ","0">>,
     \* "Analyze portfolio 12"
     Portfolio12 |->
        <<"A","n","a","l","y","z","e"," ","p","o","r","t","f","o","l","i","o"," ","1","2">>,
     \* "Portfolio 0 holdings market"
     Holdings0 |->
        <<"P","o","r","t","f","o","l","i","o"," ","0"," ","h","o","l","d","i","n","g","s"," ","m","a","r","k","e","t">>]

Queries == {Q.AnalyzePortfolio2, Q.AnalyzeHoldings, Q.ShowTransactionsUser5, Q.MarketSummaryAAPL,
            Q.Gibberish, Q.AnalyzeAndMarket, Q.RiskTransactions, Q.Transactions}

\* the queries given to the parser when it is called directly
ParserQueries ==
    Queries \cup {Q.Trades,
                  Q.PortfolioMarketTransactions,
                  Q.Spending,
                  Q.FindRecent,
                  Q.HoldingsMarket,
                  Q.HoldingsPriceAAPL,
                  Q.HoldingsVolumeAAPL,
                  Q.Portfolio0,
                  Q.Portfolio12,
                  Q.Holdings0}

\* the queries and default user ids of the calls explored, parsed once
DefaultUserIds == {NoneInt, 2}
\* (kept as relations over the finite input sets so that each query is scanned
\* once)
NormalParseTable ==
    {<<k, NormalParse(k[1], k[2], k[3])>> : k \in ParserQueries \X DefaultUserIds \X BOOLEAN}
NormalParseOf(query, default_user_id, has_previous) ==
    (CHOOSE p \in NormalParseTable :
        p[1] = <<query, default_user_id, has_previous>>)[2]

KeywordTable ==
    {<<q, [chain_parse |-> ContainsAny(q, ChainParseKeywords),
           chain |-> ContainsAny(q, ChainKeywords)]>> : q \in ParserQueries}
KeywordsOf(query) == (CHOOSE p \in KeywordTable : p[1] = query)[2]

\* set(symbols) == set(existing_symbols)
SameSymbolSet(a, b) == SeqRange(a) = SeqRange(b)

_parse_query_to_tools(query, default_user_id, previous_results, holdings) ==
    ValueOf({
        IF /\ previous_results # <<>>
           /\ symbols # <<>>
           /\ KeywordsOf(query).chain_parse
        THEN IF market.found /\ SameSymbolSet(symbols, market.arguments.symbols)
             THEN <<>>
             ELSE <<ChainedMarketCall(symbols)>>
        ELSE NormalParseOf(query, default_user_id, previous_results # <<>>) :
        symbols \in {_extract_data_from_results(previous_results, holdings).portfolio_symbols},
        market \in {LastMarketResult(previous_results)}})

_determine_chained_tools(query, current_turn_results, all_results, holdings) ==
    ValueOf({
        IF portfolio_tools # {} /\ KeywordsOf(query).chain
        THEN IF market.found /\ SameSymbolSet(symbols, market.arguments.symbols)
             THEN <<>>
             ELSE IF symbols # <<>> THEN <<ChainedMarketCall(symbols)>> ELSE <<>>
        ELSE <<>> :
        portfolio_tools \in {{i \in DOMAIN current_turn_results :
                current_turn_results[i].tool_name = "analyze_risk_metrics"}},
        symbols \in {_extract_data_from_results(all_results, holdings).portfolio_symbols},
        market \in {LastMarketResult(all_results)}})

(***************************************************************************)
(* Mock orchestrator: the reasoning call          mock_orchestrator.py     *)
(***************************************************************************)
MAX_TURNS_Six == 5 + 1

MAX_TURNS == 5
chunk_size == 50
\* len(_generate_help_message(query)) - len(query)
HelpFixedLen == 563

\* lengths of the pieces _chunk_text cuts a text of n characters into
RECURSIVE ChunkLens(_, _)
ChunkLens_DropTail(n, size) ==
    IF n <= size THEN <<>>
    ELSE <<size>> \o ChunkLens(n - size, size)

ChunkLens(n, size) ==
    IF n <= 0 THEN <<>>
    ELSE IF n <= size THEN <<n>>
    ELSE <<size>> \o ChunkLens(n - size, size)

_generate_help_message_Empty(query) == 0

_generate_help_message(query) == HelpFixedLen + Len(query)

\* the rendered text kept for a registry result
_format_tool_result(tool_result) == tool_result.text

_generate_final_answer_ErrorWins(query, tool_results) ==
    ValueOf({
        [status |-> IF has_errors THEN "error" ELSE "success",
         tools_called |-> Len(tool_results),
         errors |-> has_errors] :
        has_errors \in {\E i \in DOMAIN tool_results : tool_results[i].is_error}})

\* the fields of the JSON document _generate_final_answer builds that depend
\* on the flags of the results: status, tools_called, and whether the
\* "errors" key is present
_generate_final_answer(query, tool_results) ==
    ValueOf({
        [status |-> IF has_success /\ ~has_errors THEN "success"
                    ELSE IF has_success THEN "partial" ELSE "error",
         tools_called |-> Len(tool_results),
         errors |-> has_errors] :
        has_errors \in {\E i \in DOMAIN tool_results : tool_results[i].is_error},
        has_success \in {\E i \in DOMAIN tool_results : ~tool_results[i].is_error}})

\* content_len is the length of the content of an answer event and, in the
\* done event of the no-tool path, the length of its final_answer
Event(type, step, tool, is_error, made, size) ==
    [type |-> type, step_number |-> step, tool_name |-> tool, is_error |-> is_error,
     tool_calls_made |-> made, content_len |-> size]

(***************************************************************************)
(* Environment of a reasoning call.  The unit tests replace call_tool,     *)
(* _parse_query_to_tools, _determine_chained_tools and the holdings lookup *)
(* by test doubles; "real" means the code of the repository runs.          *)
(***************************************************************************)
StubTx   == ToolCall("query_transactions", [NoArgs EXCEPT !.user_id = 1])
StubRisk == ToolCall("analyze_risk_metrics", [NoArgs EXCEPT !.portfolio_id = 1])

\* a double of a parser-like method: never installed, returns ret, or raises
RealMethod    == [kind |-> "real",  ret |-> <<>>]
Returns(ret)  == [kind |-> "stub",  ret |-> ret]
RaisesError   == [kind |-> "raise", ret |-> <<>>]

\* what a double of call_tool does on one call
StubOutcomes == {"ok", "ok_portfolio", "isError", "raise"}

StubEnvelope(outcome, arguments) ==
    [isError |-> outcome = "isError",
     text |-> CASE outcome = "ok_portfolio" ->
                      Text("Portfolio Risk Analysis", "metrics", 1, {}, <<>>)
                [] outcome = "isError" -> Text("Unknown error", "none", NoneInt, {}, <<>>)
                [] OTHER -> Text("Result", "none", NoneInt, {}, <<>>)]

\* settings, contexts and databases of the calls explored
ProdSettings == [ALLOW_UNAUTHENTICATED_ACCESS |-> FALSE, DEBUG |-> FALSE,
                 DEFAULT_UNAUTHENTICATED_ROLE |-> "admin"]
DevSettings  == [ProdSettings EXCEPT !.ALLOW_UNAUTHENTICATED_ACCESS = TRUE]

TokenFor(uid, roles) == Tok(0, Jwt(TRUE, Payload(TRUE, uid, roles)))
TokenCtx(tok) == Ctx(Entry(tok), Absent, FALSE)

CallContexts == {NoContext,
                 TokenCtx(TokenFor(1, <<"admin">>)),
                 TokenCtx(TokenFor(1, <<"analyst">>)),
                 TokenCtx(TokenFor(2, <<"viewer">>)),
                 TokenCtx(Tok(0, GarbageBody))}

\* the database as the registry sees it:
\*   initialized : database.initialize() has run (get_session does not raise)
\*   query       : what the query layer does with a query ("rows", "empty",
\*                 "DatabaseQueryError", "DatabaseError")
\*   portfolio   : whether get_portfolio_by_id finds the portfolio
GoodDb == [initialized |-> TRUE, query |-> "rows", portfolio |-> "found"]
CallDbs == {GoodDb, [GoodDb EXCEPT !.initialized = FALSE],
            [GoodDb EXCEPT !.query = "empty"],
            [GoodDb EXCEPT !.query = "DatabaseQueryError"],
            [GoodDb EXCEPT !.query = "DatabaseError"],
            [GoodDb EXCEPT !.portfolio = "missing"]}

Env(settings, db, holdings, parse, chain, stub_call) ==
    [settings |-> settings, db |-> db, holdings |-> holdings,
     parse |-> parse, chain |-> chain, stub_call |-> stub_call]

Request(query, user_id, auth_context, include_thinking) ==
    [query |-> query, user_id |-> user_id, auth_context |-> auth_context,
     include_thinking |-> include_thinking]

\* calls against the repository's own parser, chaining and registry
RealCalls ==
    {[req |-> Request(q, u, c, t),
      env |-> Env(st, db, <<>>, RealMethod, RealMethod, FALSE)] :
        q \in Queries, u \in DefaultUserIds, c \in CallContexts, t \in BOOLEAN,
        st \in {ProdSettings, DevSettings}, db \in CallDbs}

\* calls with call_tool (and the holdings lookup) replaced by a double
StubbedToolCalls ==
    {[req |-> Request(q, NoneInt, NoContext, t),
      env |-> Env(ProdSettings, GoodDb, h, RealMethod, RealMethod, TRUE)] :
        q \in Queries, t \in BOOLEAN, h \in {<<>>, <<Lit.w_AAPL>>}}

\* calls with the parser and the chaining decision replaced as well
StubbedParserCalls ==
    {[req |-> Request(Q.Gibberish, NoneInt, NoContext, t),
      env |-> Env(ProdSettings, GoodDb, <<>>, p, c, TRUE)] :
        t \in BOOLEAN,
        p \in {Returns(<<StubTx>>), Returns(<<StubRisk, StubTx>>), Returns(<<>>),
               RaisesError},
        c \in {RealMethod, Returns(<<StubTx>>), Returns(<<StubRisk>>), Returns(<<>>)}}

Calls == RealCalls \cup StubbedToolCalls \cup StubbedParserCalls

(***************************************************************************)
(* State of one reasoning call                                             *)
(***************************************************************************)
VARIABLES
    req,                \* the arguments of reason()
    env,                \* settings, database and installed doubles
    pc,                 \* position in reason()
    step_number, tool_calls_used, conversation_turn,
    tools_to_call,      \* the list the parser returned for this turn
    tool_call,          \* tool_name / tool_args left by the for loop
    all_tool_results, tools_executed,
    pending_chunks,     \* chunks of the help message still to be sent
    events,             \* the events yielded so far
    parsed,             \* per turn, the list the parser returned
    registry_calls,     \* the calls made through call_tool, in order
    call,               \* a direct call into the RBAC core: context and settings
    outcome,            \* what the operation applied to call produced
    stream,             \* a streaming adapter: its source, position and frames
    peer,               \* a second reasoning call, suspended at a yield
    llm,                \* the LLM-backed loop: requests sent, the server's answers
    database,           \* the Database singleton: attributes and lock
    threads             \* per thread, the Database method it is inside

vars == <<req, env, pc, step_number, tool_calls_used, conversation_turn,
          tools_to_call, tool_call, all_tool_results, tools_executed,
          pending_chunks, events, parsed, registry_calls, call, outcome, stream,
          peer, llm, database, threads>>

NoToolCall == ToolCall("none", NoArgs)

NoCall == [context |-> NoContext, settings |-> ProdSettings]
NoOutcome == [op |-> "none", arg |-> <<>>, res |-> <<>>]
\* no adapter is attached to the call
NoStream == [adapter |-> "none", source |-> <<>>, ends |-> "return", pos |-> 0,
             frames |-> <<>>, state |-> "none"]

\* no second call, no LLM loop and no Database are part of the run
NoPeer == [pc |-> "none"]
NoDatabase == [state |-> "none"]
NoLlm == [requests |-> 0]
Detached ==
    /\ peer = NoPeer
    /\ llm = NoLlm
    /\ database = NoDatabase
    /\ threads = <<>>

\* the state of reason() before its first statement
Idle ==
    /\ step_number = 0
    /\ tool_calls_used = 0
    /\ conversation_turn = 0
    /\ tools_to_call = <<>>
    /\ tool_call = NoToolCall
    /\ all_tool_results = <<>>
    /\ tools_executed = <<>>
    /\ pending_chunks = <<>>
    /\ events = <<>>
    /\ parsed = <<>>
    /\ registry_calls = <<>>

Init ==
    /\ \E c \in Calls : req = c.req /\ env = c.env
    /\ pc = "start"
    /\ call = NoCall
    /\ outcome = NoOutcome
    /\ stream = NoStream
    /\ Detached
    /\ Idle

Emit_Prepend(e) == events' = <<e>> \o events

\* yield event
Emit(e) == events' = Append(events, e)

\* the initial thinking step
Start ==
    /\ pc = "start"
    /\ IF req.include_thinking
       THEN /\ step_number' = step_number + 1
            /\ Emit(Event("thinking", step_number + 1, "none", FALSE, NoneInt, 0))
       ELSE UNCHANGED <<step_number, events>>
    /\ pc' = "loop"
    /\ UNCHANGED <<peer, llm, database, threads, stream, call, outcome, req, env, tool_calls_used, conversation_turn, tools_to_call,
                   tool_call, all_tool_results, tools_executed, pending_chunks,
                   parsed, registry_calls>>

ParserResult_NoPrevious(turn) ==
    IF env.parse.kind = "stub" THEN env.parse.ret
    ELSE _parse_query_to_tools(req.query, req.user_id, <<>>, env.holdings)

\* what self._parse_query_to_tools(...) gives at the head of a turn
ParserResult(turn) ==
    IF env.parse.kind = "stub" THEN env.parse.ret
    ELSE _parse_query_to_tools(req.query, req.user_id,
                               IF turn > 1 THEN all_tool_results ELSE <<>>,
                               env.holdings)

\* the for loop over tools_to_call only binds tool_name and tool_args; the
\* statements after it run once, with the last binding
LoopBinding(tools) == tools[Len(tools)]

\* head of the conversation loop up to the next yield
ParseTurn ==
    /\ pc = "loop"
    /\ IF conversation_turn >= MAX_TURNS
       THEN /\ pc' = "synth"
            /\ UNCHANGED <<conversation_turn, tools_to_call, tool_call, step_number,
                           events, pending_chunks, parsed>>
       ELSE IF env.parse.kind = "raise"
       THEN /\ conversation_turn' = conversation_turn + 1
            /\ pc' = "handler"
            /\ UNCHANGED <<tools_to_call, tool_call, step_number, events,
                           pending_chunks, parsed>>
       ELSE \E turn \in {conversation_turn + 1} :
            \E tools \in {ParserResult(turn)} :
                /\ conversation_turn' = turn
                /\ tools_to_call' = tools
                /\ parsed' = Append(parsed, tools)
                /\ IF tools = <<>> /\ turn = 1
                   THEN /\ step_number' = step_number + 1
                        /\ Emit(Event("thinking", step_number + 1, "none", FALSE,
                                      NoneInt, 0))
                        /\ pending_chunks' =
                               ChunkLens(_generate_help_message(req.query), chunk_size)
                        /\ pc' = "help"
                        /\ UNCHANGED tool_call
                   ELSE IF tools = <<>>
                   THEN /\ pc' = "synth"
                        /\ UNCHANGED <<step_number, events, pending_chunks, tool_call>>
                   ELSE /\ tool_call' = LoopBinding(tools)
                        /\ step_number' = step_number + 1
                        /\ Emit(Event("tool_call", step_number + 1,
                                      LoopBinding(tools).name, FALSE, NoneInt, 0))
                        /\ pc' = "exec"
                        /\ UNCHANGED pending_chunks
    /\ UNCHANGED <<peer, llm, database, threads, stream, call, outcome, req, env, tool_calls_used, all_tool_results, tools_executed,
                   registry_calls>>

\* one chunk of the help message
HelpChunk ==
    /\ pc = "help"
    /\ pending_chunks # <<>>
    /\ step_number' = step_number + 1
    /\ Emit(Event("answer", step_number + 1, "none", FALSE, NoneInt, Head(pending_chunks)))
    /\ pending_chunks' = Tail(pending_chunks)
    /\ UNCHANGED <<peer, llm, database, threads, stream, call, outcome, req, env, pc, tool_calls_used, conversation_turn, tools_to_call,
                   tool_call, all_tool_results, tools_executed, parsed, registry_calls>>

\* the done event of the no-tool path
HelpDone ==
    /\ pc = "help"
    /\ pending_chunks = <<>>
    /\ Emit(Event("done", step_number + 1, "none", FALSE, 0,
                   _generate_help_message(req.query)))
    /\ pc' = "done"
    /\ UNCHANGED <<peer, llm, database, threads, stream, call, outcome, req, env, step_number, tool_calls_used, conversation_turn,
                   tools_to_call, tool_call, all_tool_results, tools_executed,
                   pending_chunks, parsed, registry_calls>>

\* what self._determine_chained_tools(...) gives after a turn
ChainResult(turn_results, all_results) ==
    IF env.chain.kind = "stub" THEN env.chain.ret
    ELSE _determine_chained_tools(req.query, turn_results, all_results, env.holdings)

FinishTurn_RaiseUnflagged(raised, envelope) ==
    \E result \in {ToolResult(tool_call.name,
                              IF raised THEN Text("Error", "exception", NoneInt, {}, <<>>)
                              ELSE _format_tool_result(envelope),
                              envelope.isError,
                              tool_call.arguments)} :
    \E next_tools \in {IF conversation_turn < MAX_TURNS
                       THEN ChainResult(<<result>>, Append(all_tool_results, result))
                       ELSE <<>>} :
        /\ step_number' = step_number + 1
        /\ Emit(Event("tool_result", step_number + 1, tool_call.name, raised, NoneInt, 0))
        /\ tools_executed' = Append(tools_executed,
                                    [name |-> tool_call.name, success |-> ~raised])
        /\ tool_calls_used' = IF raised THEN tool_calls_used ELSE tool_calls_used + 1
        /\ all_tool_results' = Append(all_tool_results, result)
        /\ IF next_tools # <<>>
           THEN tools_to_call' = next_tools /\ pc' = "loop"
           ELSE UNCHANGED tools_to_call /\ pc' = "synth"

\* the rest of a turn once the registry call has returned envelope
\* (raised = FALSE) or raised an exception
FinishTurn(raised, envelope) ==
    \E result \in {ToolResult(tool_call.name,
                              IF raised THEN Text("Error", "exception", NoneInt, {}, <<>>)
                              ELSE _format_tool_result(envelope),
                              IF raised THEN TRUE ELSE envelope.isError,
                              tool_call.arguments)} :
    \E next_tools \in {IF conversation_turn < MAX_TURNS
                       THEN ChainResult(<<result>>, Append(all_tool_results, result))
                       ELSE <<>>} :
        /\ step_number' = step_number + 1
        /\ Emit(Event("tool_result", step_number + 1, tool_call.name, raised, NoneInt, 0))
        /\ tools_executed' = Append(tools_executed,
                                    [name |-> tool_call.name, success |-> ~raised])
        /\ tool_calls_used' = IF raised THEN tool_calls_used ELSE tool_calls_used + 1
        /\ all_tool_results' = Append(all_tool_results, result)
        /\ IF next_tools # <<>>
           THEN tools_to_call' = next_tools /\ pc' = "loop"
           ELSE UNCHANGED tools_to_call /\ pc' = "synth"

\* the registry call of a turn and everything up to the chaining decision
ExecuteTool ==
    /\ pc = "exec"
    /\ registry_calls' = Append(registry_calls, tool_call)
    /\ IF env.stub_call
       THEN \E stub_outcome \in StubOutcomes :
                FinishTurn(stub_outcome = "raise",
                           StubEnvelope(stub_outcome, tool_call.arguments))
       ELSE \E envelope \in {call_tool(tool_call.name, tool_call.arguments,
                                       req.auth_context, env.settings, env.db)} :
                FinishTurn(FALSE, envelope)
    /\ UNCHANGED <<peer, llm, database, threads, stream, call, outcome, req, env, conversation_turn, tool_call, pending_chunks, parsed>>

Synthesize_NoAnswer ==
    /\ pc = "synth"
    /\ pc' = "answered"
    /\ UNCHANGED <<peer, llm, database, threads, stream, call, outcome, req, env, step_number, events, tool_calls_used,
                   conversation_turn, tools_to_call, tool_call, all_tool_results,
                   tools_executed, pending_chunks, parsed, registry_calls>>

\* final answer generation and the answer event
Synthesize ==
    /\ pc = "synth"
    /\ step_number' = step_number + 1
    /\ Emit(Event("answer", step_number + 1, "none", FALSE, NoneInt, 0))
    /\ pc' = "answered"
    /\ UNCHANGED <<peer, llm, database, threads, stream, call, outcome, req, env, tool_calls_used, conversation_turn, tools_to_call,
                   tool_call, all_tool_results, tools_executed, pending_chunks,
                   parsed, registry_calls>>

EmitDone_SameStep ==
    /\ pc = "answered"
    /\ Emit(Event("done", step_number, "none", FALSE, tool_calls_used, 0))
    /\ pc' = "done"
    /\ UNCHANGED <<peer, llm, database, threads, stream, call, outcome, req, env, step_number, tool_calls_used, conversation_turn,
                   tools_to_call, tool_call, all_tool_results, tools_executed,
                   pending_chunks, parsed, registry_calls>>

\* the done event that follows the answer
EmitDone ==
    /\ pc = "answered"
    /\ Emit(Event("done", step_number + 1, "none", FALSE, tool_calls_used, 0))
    /\ pc' = "done"
    /\ UNCHANGED <<peer, llm, database, threads, stream, call, outcome, req, env, step_number, tool_calls_used, conversation_turn,
                   tools_to_call, tool_call, all_tool_results, tools_executed,
                   pending_chunks, parsed, registry_calls>>

\* the outer except clause: the answer event
HandlerAnswer ==
    /\ pc = "handler"
    /\ step_number' = step_number + 1
    /\ Emit(Event("answer", step_number + 1, "none", TRUE, NoneInt, 0))
    /\ pc' = "handler_answered"
    /\ UNCHANGED <<peer, llm, database, threads, stream, call, outcome, req, env, tool_calls_used, conversation_turn, tools_to_call,
                   tool_call, all_tool_results, tools_executed, pending_chunks,
                   parsed, registry_calls>>

\* the outer except clause: the done event
HandlerDone ==
    /\ pc = "handler_answered"
    /\ Emit(Event("done", step_number + 1, "none", TRUE, tool_calls_used, 0))
    /\ pc' = "done"
    /\ UNCHANGED <<peer, llm, database, threads, stream, call, outcome, req, env, step_number, tool_calls_used, conversation_turn,
                   tools_to_call, tool_call, all_tool_results, tools_executed,
                   pending_chunks, parsed, registry_calls>>

Next ==
    \/ Start
    \/ ParseTurn
    \/ HelpChunk
    \/ HelpDone
    \/ ExecuteTool
    \/ Synthesize
    \/ EmitDone
    \/ HandlerAnswer
    \/ HandlerDone

Spec == Init /\ [][Next]_vars

\* the consumer keeps iterating the generator, so a call that can take a
\* step eventually takes it
SpecLive == Spec /\ WF_vars(Next)

(***************************************************************************)
(* Direct calls into the RBAC core and the tool registry                   *)
(***************************************************************************)
\* token strings: up to MaxBearer "Bearer " prefixes before each body
TokenStrings == {Tok(n, b) : n \in 0..MaxBearer, b \in TokenBodies \cup {EmptyBody}}

\* token strings combined when both keys of the context are given
PairStrings == {Tok(0, EmptyBody), Tok(0, GarbageBody),
                TokenFor(1, <<"admin">>), TokenFor(2, <<"analyst">>)}

RbacContexts ==
    {NoContext, Ctx(Absent, Absent, FALSE), Ctx(Absent, Absent, TRUE)}
    \cup {Ctx(Entry(t), Absent, FALSE) : t \in TokenStrings}
    \cup {Ctx(Absent, Entry(t), FALSE) : t \in TokenStrings}
    \cup {Ctx(Entry(t), Entry(a), FALSE) : t \in PairStrings, a \in PairStrings}

\* the arguments given to each tool
RbacArgs(name) ==
    CASE name = "query_transactions" ->
            {[NoArgs EXCEPT !.user_id = u, !.filters = f] :
                u \in {NoneInt} \cup 1..MaxUserId, f \in {"none", "invalid"}}
      [] name = "analyze_risk_metrics" ->
            {[NoArgs EXCEPT !.portfolio_id = p] : p \in {NoneInt, 1}}
      [] name = "get_market_summary" ->
            {NoArgs, [NoArgs EXCEPT !.has_symbols = TRUE, !.symbols = <<Lit.w_AAPL>>]}
      [] OTHER -> {NoArgs}

\* the permission sets a gate is built with
RequiredSets ==
    {RequiredPermissions(n) : n \in ToolNames}
    \cup {{"read:transactions"}, {"read:user_transactions"}, {"write:all_data"}}

InitRbac ==
    /\ \E c \in RbacContexts, st \in SettingsSpace :
            call = [context |-> c, settings |-> st]
    /\ outcome = NoOutcome
    /\ stream = NoStream
    /\ pc = "rbac"
    /\ req = Request(<<>>, NoneInt, NoContext, FALSE)
    /\ env = Env(ProdSettings, GoodDb, <<>>, RealMethod, RealMethod, FALSE)
    /\ Detached
    /\ Idle

Outcome(op, arg, res) == [op |-> op, arg |-> arg, res |-> res]

\* everything a direct call leaves alone
RbacFrame ==
    UNCHANGED <<peer, llm, database, threads, stream, call, req, env, pc, step_number, tool_calls_used, conversation_turn,
                tools_to_call, tool_call, all_tool_results, tools_executed,
                pending_chunks, events, parsed, registry_calls>>

ResolveIdentity ==
    /\ pc = "rbac"
    /\ outcome = NoOutcome
    /\ outcome' = Outcome("get_user_from_context", <<>>,
                          get_user_from_context(call.context, call.settings))
    /\ RbacFrame

RoleGate ==
    /\ pc = "rbac"
    /\ outcome = NoOutcome
    /\ \E allowed_roles \in (SUBSET Role) \ {{}} :
            outcome' = Outcome("require_role", allowed_roles,
                               require_role(allowed_roles, call.context, call.settings))
    /\ RbacFrame

PermissionGate ==
    /\ pc = "rbac"
    /\ outcome = NoOutcome
    /\ \E required_permissions \in RequiredSets :
            outcome' = Outcome("require_permission", required_permissions,
                               require_permission(required_permissions, call.context,
                                                  call.settings))
    /\ RbacFrame

CallTool ==
    /\ pc = "rbac"
    /\ outcome = NoOutcome
    /\ \E name \in ToolNames \cup {"unknown_tool"}, db \in CallDbs :
        \E arguments \in RbacArgs(name) :
            outcome' = Outcome("call_tool",
                               [name |-> name, arguments |-> arguments, db |-> db],
                               call_tool(name, arguments, call.context,
                                         call.settings, db))
    /\ RbacFrame

\* arguments of the ownership functions: target user ids (None included),
\* identities and lists of Role members
OwnershipUserIds == {NoneInt} \cup 0..MaxUserId
OwnershipRoleLists == {<<>>, <<"viewer">>, <<"analyst">>, <<"admin">>,
                       <<"viewer", "analyst">>, <<"analyst", "admin">>}
OwnershipArgs ==
    [user_id : OwnershipUserIds,
     current_user : {Identity(u, "u", "e", <<>>) : u \in OwnershipUserIds},
     user_roles : OwnershipRoleLists]

\* the ownership functions read neither the context nor the settings: they
\* are called from the state without a context
CheckUserAccess ==
    /\ pc = "rbac"
    /\ outcome = NoOutcome
    /\ call = NoCall
    /\ \E a \in OwnershipArgs :
            outcome' = Outcome("check_user_access", a,
                               Ok(check_user_access(a.user_id, a.current_user,
                                                    a.user_roles)))
    /\ RbacFrame

EnforceUserAccess ==
    /\ pc = "rbac"
    /\ outcome = NoOutcome
    /\ call = NoCall
    /\ \E a \in OwnershipArgs :
            outcome' = Outcome("enforce_user_access", a,
                               enforce_user_access(a.user_id, a.current_user,
                                                   a.user_roles))
    /\ RbacFrame

\* the identities placed in an access token
TokenData ==
    [user_id : 0..MaxUserId, username : {"", "u"}, email : {"", "e"},
     roles : RoleLists]

\* a token is issued for an identity and the identity is read back from it
IssueAndExtract ==
    /\ pc = "rbac"
    /\ outcome = NoOutcome
    /\ call = NoCall
    /\ \E data \in TokenData :
            outcome' = Outcome("extract_user_from_token", data,
                               extract_user_from_token(create_access_token(data)))
    /\ RbacFrame

NextRbac ==
    \/ ResolveIdentity \/ RoleGate \/ PermissionGate \/ CallTool
    \/ CheckUserAccess \/ EnforceUserAccess \/ IssueAndExtract

SpecRbac == InitRbac /\ [][NextRbac]_vars

(***************************************************************************)
(* Streaming adapters: stream_reasoning_results (streaming.py) and          *)
(* generate_stream (routes/reasoning.py)                                   *)
(***************************************************************************)
\* longest orchestrator stream explored
MaxStream == 3

\* the orchestrators yield events of six types; a tool_result is a success
\* or a failure
EventKinds ==
    {[type |-> t, is_error |-> FALSE] :
        t \in {"thinking", "tool_call", "tool_result", "answer", "error", "done"}}
    \cup {[type |-> "tool_result", is_error |-> TRUE]}

\* what the generator handed to an adapter does: the events it yields (the
\* i-th with step_number i) and how it ends (returns, or raises)
StreamSources ==
    [events : UNION {{[i \in 1..n |->
                          Event(k[i].type, i,
                                IF k[i].type \in {"tool_call", "tool_result"}
                                THEN "query_transactions" ELSE "none",
                                k[i].is_error,
                                IF k[i].type = "done" THEN 1 ELSE NoneInt, i)] :
                      k \in [1..n -> EventKinds]} : n \in 0..MaxStream},
     ends : {"return", "Exception", "ValidationError"}]

\* "data: " + json.dumps({"type": event_type, "data": data}) + "\n\n"
format_sse_event(event_type, data) == [type |-> event_type, data |-> data]

\* the data dictionary an adapter builds for an event, from the fields of
\* the event kept in Event; "service" is stream_reasoning_results, "route"
\* is generate_stream
SseData(adapter, event) ==
    CASE event.type \in {"thinking", "answer"} ->
            [step_number |-> event.step_number, content |-> event.content_len]
      [] event.type = "tool_call" ->
            [step_number |-> event.step_number, tool_name |-> event.tool_name,
             message |-> event.content_len]
      [] event.type = "tool_result" /\ adapter = "route" ->
            [step_number |-> event.step_number, tool_name |-> event.tool_name,
             success |-> ~event.is_error, message |-> event.content_len]
      [] event.type = "tool_result" ->
            [step_number |-> event.step_number, tool_name |-> event.tool_name,
             result |-> "", message |-> event.content_len]
      [] event.type = "error" ->
            [step_number |-> event.step_number, message |-> event.content_len]
      [] event.type = "done" ->
            [step_number |-> event.step_number,
             tool_calls_made |-> event.tool_calls_made,
             message |-> "Reasoning complete"]

IsTerminal_DoneOnly(type) == type = "done"

\* the branches of the dispatch that end with break
IsTerminal(type) == type \in {"error", "done"}

InitStream ==
    /\ \E a \in {"service", "route"}, src \in StreamSources :
            stream = [adapter |-> a, source |-> src.events, ends |-> src.ends,
                      pos |-> 0, frames |-> <<>>, state |-> "new"]
    /\ pc = "stream"
    /\ req = Request(<<>>, NoneInt, NoContext, FALSE)
    /\ env = Env(ProdSettings, GoodDb, <<>>, RealMethod, RealMethod, FALSE)
    /\ call = NoCall
    /\ outcome = NoOutcome
    /\ Detached
    /\ Idle

\* everything an adapter leaves alone
StreamFrame ==
    UNCHANGED <<peer, llm, database, threads, call, outcome, req, env, pc, step_number, tool_calls_used,
                conversation_turn, tools_to_call, tool_call, all_tool_results,
                tools_executed, pending_chunks, events, parsed, registry_calls>>

\* the start frame sent before the generator is iterated
StreamStart ==
    /\ stream.state = "new"
    /\ stream' = [stream EXCEPT
            !.frames = <<format_sse_event("start", [message |-> "Starting reasoning"])>>,
            !.state = "open"]
    /\ StreamFrame

\* one iteration of the async for: the next event of the generator goes
\* through the if / elif chain, which has no final else
ForwardEvent ==
    /\ stream.state = "open"
    /\ stream.pos < Len(stream.source)
    /\ \E event \in {stream.source[stream.pos + 1]} :
            stream' = [stream EXCEPT
                !.pos = @ + 1,
                !.frames =
                    IF event.type \in {"thinking", "tool_call", "tool_result",
                                       "answer", "error", "done"}
                    THEN Append(@, format_sse_event(event.type,
                                                    SseData(stream.adapter, event)))
                    ELSE @,
                !.state = IF IsTerminal(event.type) THEN "closed" ELSE "open"]
    /\ StreamFrame

\* the generator is exhausted: it returns, or it raises and the except
\* clauses of the adapter run (generate_stream re-raises a ValidationError)
SourceEnds ==
    /\ stream.state = "open"
    /\ stream.pos = Len(stream.source)
    /\ stream' =
            IF stream.ends = "return" THEN [stream EXCEPT !.state = "closed"]
            ELSE IF stream.ends = "ValidationError" /\ stream.adapter = "route"
            THEN [stream EXCEPT !.state = "raised"]
            ELSE [stream EXCEPT
                    !.frames = Append(@, format_sse_event("error",
                                                          [message |-> stream.ends])),
                    !.state = "closed"]
    /\ StreamFrame

NextStream == StreamStart \/ ForwardEvent \/ SourceEnds

SpecStream == InitStream /\ [][NextStream]_vars

(***************************************************************************)
(* Direct calls of the orchestrator's methods, as the unit tests make them *)
(***************************************************************************)
\* the most results a direct call is given
MaxResults == 3

\* the accumulated results the methods are called with
ResultKinds ==
    {ToolResult("analyze_risk_metrics",
                Text("Portfolio Risk Analysis", "metrics", 1, {}, <<>>), FALSE,
                StubRisk.arguments),
     ToolResult("analyze_risk_metrics",
                Text("Error", "exception", NoneInt, {}, <<>>), TRUE, StubRisk.arguments),
     ToolResult("get_market_summary", Text("Result", "none", NoneInt, {}, <<>>), FALSE,
                ChainedMarketCall(<<Lit.w_AAPL>>).arguments),
     ToolResult("get_market_summary", Text("Result", "none", NoneInt, {}, <<>>), FALSE,
                ChainedMarketCall(<< <<"M","S","F","T">> >>).arguments),
     ToolResult("query_transactions", Text("Result", "none", NoneInt, {}, <<>>), FALSE,
                StubTx.arguments)}

ResultLists == UNION {[1..n -> ResultKinds] : n \in 0..MaxResults}

\* the results of the current turn are the tail of the accumulated results
LastResults(results, n) ==
    SubSeq(results, Len(results) - n + 1, Len(results))

InitMethods ==
    /\ \E q \in ParserQueries, h \in {<<>>, <<Lit.w_AAPL>>} :
            /\ req = Request(q, NoneInt, NoContext, FALSE)
            /\ env = Env(ProdSettings, GoodDb, h, RealMethod, RealMethod, TRUE)
    /\ pc = "method"
    /\ call = NoCall
    /\ outcome = NoOutcome
    /\ stream = NoStream
    /\ Detached
    /\ Idle

DetermineChainedTools ==
    /\ pc = "method"
    /\ outcome = NoOutcome
    /\ \E all_results \in ResultLists :
       \E n \in 0..(IF all_results = <<>> THEN 0 ELSE 1) :
            outcome' = Outcome("_determine_chained_tools",
                               [current_turn_results |-> LastResults(all_results, n),
                                all_results |-> all_results],
                               _determine_chained_tools(req.query,
                                                        LastResults(all_results, n),
                                                        all_results, env.holdings))
    /\ RbacFrame

GenerateFinalAnswer ==
    /\ pc = "method"
    /\ outcome = NoOutcome
    /\ \E tool_results \in ResultLists :
            outcome' = Outcome("_generate_final_answer", tool_results,
                               _generate_final_answer(req.query, tool_results))
    /\ RbacFrame

\* turn-1 parsing: no previous results are passed
ParseQuery ==
    /\ pc = "method"
    /\ outcome = NoOutcome
    /\ \E default_user_id \in DefaultUserIds :
            outcome' = Outcome("_parse_query_to_tools",
                               [query |-> req.query, default_user_id |-> default_user_id],
                               _parse_query_to_tools(req.query, default_user_id, <<>>,
                                                     env.holdings))
    /\ RbacFrame

NextMethods == DetermineChainedTools \/ GenerateFinalAnswer \/ ParseQuery

SpecMethods == InitMethods /\ [][NextMethods]_vars

(***************************************************************************)
(* The Database singleton under concurrent initialize and close            *)
(***************************************************************************)
\* calls each thread makes
MaxCalls == 2

\* the threads that share the singleton
Threads == {1, 2}

ThreadIdle == [op |-> "idle", pc |-> "idle", database_url |-> "", raised |-> "none",
               calls |-> 0]

\* Database(): __new__ sets _initialized only, and __init__ then finds the
\* attribute present and assigns nothing. attrs holds which of _engine and
\* _SessionLocal exist; their value is NoneInt for None, else the number of
\* the engine. The last four fields count what the calls have done.
Constructed ==
    [attrs |-> {}, _engine |-> NoneInt, _SessionLocal |-> NoneInt,
     _initialized |-> FALSE, _lock |-> 0,
     engines_created |-> 0, factories_created |-> 0, connect_failures |-> 0,
     close_called |-> FALSE]

InitDb ==
    /\ database = Constructed
    /\ threads = [t \in Threads |-> ThreadIdle]
    /\ pc = "db"
    /\ req = Request(<<>>, NoneInt, NoContext, FALSE)
    /\ env = Env(ProdSettings, GoodDb, <<>>, RealMethod, RealMethod, FALSE)
    /\ call = NoCall
    /\ outcome = NoOutcome
    /\ stream = NoStream
    /\ peer = NoPeer
    /\ llm = NoLlm
    /\ Idle

\* everything a Database method leaves alone
DbFrame ==
    UNCHANGED <<peer, llm, stream, call, outcome, req, env, pc, step_number,
                tool_calls_used, conversation_turn, tools_to_call, tool_call,
                all_tool_results, tools_executed, pending_chunks, events, parsed,
                registry_calls>>

At(t, op, at) == pc = "db" /\ threads[t].op = op /\ threads[t].pc = at

Goto(t, at) == threads' = [threads EXCEPT ![t].pc = at]

\* the call returns, or raises when raised is an exception
Return(t, raised) ==
    threads' = [threads EXCEPT ![t] = [@ EXCEPT !.op = "idle", !.pc = "idle",
                                                 !.raised = raised,
                                                 !.calls = @ + 1]]

\* a thread calls database.initialize(database_url)
CallInitialize(t) ==
    /\ At(t, "idle", "idle")
    /\ threads[t].calls < MaxCalls
    /\ \E database_url \in {"", "postgresql://"} :
            threads' = [threads EXCEPT ![t] = [@ EXCEPT !.op = "initialize",
                                                         !.pc = "check",
                                                         !.database_url = database_url,
                                                         !.raised = "none"]]
    /\ UNCHANGED database
    /\ DbFrame

\* if self._initialized: return
InitCheck(t) ==
    /\ At(t, "initialize", "check")
    /\ IF database._initialized THEN Return(t, "none") ELSE Goto(t, "acquire")
    /\ UNCHANGED database
    /\ DbFrame

\* with self._lock:
InitAcquire(t) ==
    /\ At(t, "initialize", "acquire")
    /\ database._lock = 0
    /\ database' = [database EXCEPT !._lock = t]
    /\ Goto(t, "recheck")
    /\ DbFrame

InitRecheck_NoDoubleCheck(t) ==
    /\ At(t, "initialize", "recheck")
    /\ IF threads[t].database_url = ""
       THEN /\ database' = [database EXCEPT !._lock = 0]
            /\ Return(t, "DatabaseConnectionError")
       ELSE /\ Goto(t, "create")
            /\ UNCHANGED database
    /\ DbFrame

\* the second test of _initialized and the test of database_url
InitRecheck(t) ==
    /\ At(t, "initialize", "recheck")
    /\ IF database._initialized
       THEN /\ database' = [database EXCEPT !._lock = 0]
            /\ Return(t, "none")
       ELSE IF threads[t].database_url = ""
       THEN /\ database' = [database EXCEPT !._lock = 0]
            /\ Return(t, "DatabaseConnectionError")
       ELSE /\ Goto(t, "create")
            /\ UNCHANGED database
    /\ DbFrame

\* self._engine = create_engine(...)
InitCreateEngine(t) ==
    /\ At(t, "initialize", "create")
    /\ database' = [database EXCEPT !._engine = database.engines_created + 1,
                                    !.attrs = @ \cup {"_engine"},
                                    !.engines_created = @ + 1]
    /\ Goto(t, "connect")
    /\ DbFrame

\* the connection test: it fails on None (close has run meanwhile) and when
\* the server refuses; every failure leaves as DatabaseConnectionError
InitConnect(t) ==
    /\ At(t, "initialize", "connect")
    /\ \E connects \in IF database._engine = NoneInt THEN {FALSE} ELSE BOOLEAN :
            IF connects
            THEN /\ Goto(t, "factory")
                 /\ UNCHANGED database
            ELSE /\ database' = [database EXCEPT !._lock = 0,
                                                 !.connect_failures = @ + 1]
                 /\ Return(t, "DatabaseConnectionError")
    /\ DbFrame

\* self._SessionLocal = sessionmaker(bind=self._engine); a factory bound to
\* None (close has run meanwhile) is written 0
InitFactory(t) ==
    /\ At(t, "initialize", "factory")
    /\ database' = [database EXCEPT !._SessionLocal =
                                        IF database._engine = NoneInt THEN 0
                                        ELSE database._engine,
                                    !.attrs = @ \cup {"_SessionLocal"},
                                    !.factories_created = @ + 1]
    /\ Goto(t, "flag")
    /\ DbFrame

\* self._initialized = True, and the lock is released
InitFlag(t) ==
    /\ At(t, "initialize", "flag")
    /\ database' = [database EXCEPT !._initialized = TRUE, !._lock = 0]
    /\ Return(t, "none")
    /\ DbFrame

\* a thread calls database.close()
CallClose(t) ==
    /\ At(t, "idle", "idle")
    /\ threads[t].calls < MaxCalls
    /\ threads' = [threads EXCEPT ![t] = [@ EXCEPT !.op = "close", !.pc = "test",
                                                   !.raised = "none"]]
    /\ database' = [database EXCEPT !.close_called = TRUE]
    /\ DbFrame

\* if self._engine:
CloseTest(t) ==
    /\ At(t, "close", "test")
    /\ IF "_engine" \notin database.attrs THEN Return(t, "AttributeError")
       ELSE IF database._engine = NoneInt THEN Return(t, "none")
       ELSE Goto(t, "dispose")
    /\ UNCHANGED database
    /\ DbFrame

\* self._engine.dispose()
CloseDispose(t) ==
    /\ At(t, "close", "dispose")
    /\ IF database._engine = NoneInt THEN Return(t, "AttributeError")
       ELSE Goto(t, "clear_engine")
    /\ UNCHANGED database
    /\ DbFrame

\* self._engine = None
CloseClearEngine(t) ==
    /\ At(t, "close", "clear_engine")
    /\ database' = [database EXCEPT !._engine = NoneInt]
    /\ Goto(t, "clear_factory")
    /\ DbFrame

\* self._SessionLocal = None
CloseClearFactory(t) ==
    /\ At(t, "close", "clear_factory")
    /\ database' = [database EXCEPT !._SessionLocal = NoneInt,
                                    !.attrs = @ \cup {"_SessionLocal"}]
    /\ Goto(t, "clear_flag")
    /\ DbFrame

\* self._initialized = False
CloseClearFlag(t) ==
    /\ At(t, "close", "clear_flag")
    /\ database' = [database EXCEPT !._initialized = FALSE]
    /\ Return(t, "none")
    /\ DbFrame

NextDb ==
    \E t \in Threads :
        \/ CallInitialize(t)
        \/ InitCheck(t)
        \/ InitAcquire(t)
        \/ InitRecheck(t)
        \/ InitCreateEngine(t)
        \/ InitConnect(t)
        \/ InitFactory(t)
        \/ InitFlag(t)
        \/ CallClose(t)
        \/ CloseTest(t)
        \/ CloseDispose(t)
        \/ CloseClearEngine(t)
        \/ CloseClearFactory(t)
        \/ CloseClearFlag(t)

SpecDb == InitDb /\ [][NextDb]_vars

(***************************************************************************)
(* The LLM-backed reasoning loop (ReasoningOrchestrator.reason)            *)
(***************************************************************************)
LLM_MAX_TURNS == 1000
LLM_MAX_TOOL_CALLS == 10000

\* requests after which a run is no longer followed
MaxRequests == 1001

\* what one POST to the messages endpoint comes back with: a streamed
\* message of text, a streamed message that requests a tool, a status other
\* than 200, an exception of the client, an exception while reading
LlmResponses == {"text", "tool_use", "status_error", "timeout", "stream_error"}

\* the server's answer to request n: first, then rest for every later one
ResponseTo(n) == IF n = 1 THEN llm.first ELSE llm.rest

InitLlm ==
    /\ \E first \in LlmResponses, rest \in LlmResponses :
            llm = [requests |-> 0, first |-> first, rest |-> rest]
    /\ \E include_thinking \in BOOLEAN :
            req = Request(Q.Gibberish, NoneInt, NoContext, include_thinking)
    /\ env = Env(ProdSettings, GoodDb, <<>>, RealMethod, RealMethod, FALSE)
    /\ pc = "llm_loop"
    /\ call = NoCall
    /\ outcome = NoOutcome
    /\ stream = NoStream
    /\ peer = NoPeer
    /\ database = NoDatabase
    /\ threads = <<>>
    /\ Idle

\* everything the loop leaves alone
LlmFrame ==
    UNCHANGED <<peer, database, threads, stream, call, outcome, req, env, tools_to_call,
                tool_call, all_tool_results, tools_executed, pending_chunks, parsed,
                registry_calls>>

\* head of the while loop: the two limits, then the request is sent
LlmRequest ==
    /\ pc = "llm_loop"
    /\ llm.requests < MaxRequests
    /\ IF conversation_turn >= LLM_MAX_TURNS \/ tool_calls_used >= LLM_MAX_TOOL_CALLS
       THEN /\ Emit(Event("error", step_number, "none", TRUE, NoneInt, 0))
            /\ pc' = "llm_after"
            /\ UNCHANGED llm
       ELSE /\ llm' = [llm EXCEPT !.requests = @ + 1]
            /\ pc' = "llm_response"
            /\ UNCHANGED events
    /\ UNCHANGED <<step_number, tool_calls_used, conversation_turn>>
    /\ LlmFrame

\* a request that fails: one error event, then break
LlmFailure ==
    /\ pc = "llm_response"
    /\ ResponseTo(llm.requests) \in {"status_error", "timeout", "stream_error"}
    /\ Emit(Event("error", step_number, "none", TRUE, NoneInt, 0))
    /\ pc' = "llm_after"
    /\ UNCHANGED <<llm, step_number, tool_calls_used, conversation_turn>>
    /\ LlmFrame

\* a streamed message read to message_stop. The statements that run the
\* requested tools and advance conversation_turn stand after break in the
\* last except clause of the request, so no response reaches them: the try
\* block ends and the while loop starts over.
LlmMessage ==
    /\ pc = "llm_response"
    /\ ResponseTo(llm.requests) \in {"text", "tool_use"}
    /\ \E has_text \in {ResponseTo(llm.requests) = "text"} :
            IF conversation_turn = 0 /\ tool_calls_used = 0 /\ has_text
            THEN IF req.include_thinking
                 THEN /\ Emit(Event("thinking", IF step_number > 0 THEN step_number ELSE 1,
                                    "none", FALSE, NoneInt, 0))
                      /\ step_number' = IF step_number = 0 THEN 1 ELSE step_number
                 ELSE UNCHANGED <<events, step_number>>
            ELSE IF conversation_turn > 0
            THEN IF ResponseTo(llm.requests) = "tool_use"
                 THEN /\ Emit(Event("answer", step_number, "none", FALSE, NoneInt, 0))
                      /\ UNCHANGED step_number
                 ELSE /\ events' = events \o
                            <<Event("answer", step_number, "none", FALSE, NoneInt, 0),
                              Event("answer", step_number + 1, "none", FALSE, NoneInt, 0)>>
                      /\ step_number' = step_number + 1
            ELSE UNCHANGED <<events, step_number>>
    /\ pc' = "llm_loop"
    /\ UNCHANGED <<llm, tool_calls_used, conversation_turn>>
    /\ LlmFrame

\* after the loop: the done event
LlmDone ==
    /\ pc = "llm_after"
    /\ Emit(Event("done", step_number + 1, "none", FALSE, tool_calls_used, 0))
    /\ pc' = "done"
    /\ UNCHANGED <<llm, step_number, tool_calls_used, conversation_turn>>
    /\ LlmFrame

NextLlm == LlmRequest \/ LlmFailure \/ LlmMessage \/ LlmDone

SpecLlm == InitLlm /\ [][NextLlm]_vars

(***************************************************************************)
(* Two reasoning calls on one orchestrator instance.  reason() keeps its   *)
(* accumulators in locals of the generator frame; the event loop runs one  *)
(* call at a time and may change over at every yield and await.            *)
(***************************************************************************)
\* the frame of the call that is running
Running ==
    [req |-> req, env |-> env, pc |-> pc, step_number |-> step_number,
     tool_calls_used |-> tool_calls_used, conversation_turn |-> conversation_turn,
     tools_to_call |-> tools_to_call, tool_call |-> tool_call,
     all_tool_results |-> all_tool_results, tools_executed |-> tools_executed,
     pending_chunks |-> pending_chunks, events |-> events, parsed |-> parsed,
     registry_calls |-> registry_calls]

\* the frame of a call before its first statement
NewFrame(c) ==
    [req |-> c.req, env |-> c.env, pc |-> "start", step_number |-> 0,
     tool_calls_used |-> 0, conversation_turn |-> 0, tools_to_call |-> <<>>,
     tool_call |-> NoToolCall, all_tool_results |-> <<>>, tools_executed |-> <<>>,
     pending_chunks |-> <<>>, events |-> <<>>, parsed |-> <<>>,
     registry_calls |-> <<>>]

\* pairs of calls made on the same instance, with the same doubles installed
PairedCalls ==
    {[req |-> Request(q, NoneInt, NoContext, t),
      env |-> Env(ProdSettings, GoodDb, <<Lit.w_AAPL>>, RealMethod, RealMethod, TRUE)] :
        q \in {Q.AnalyzeHoldings, Q.ShowTransactionsUser5, Q.Gibberish},
        t \in BOOLEAN}
    \cup
    {[req |-> Request(Q.Gibberish, NoneInt, NoContext, t),
      env |-> Env(ProdSettings, GoodDb, <<>>, RaisesError, RealMethod, TRUE)] :
        t \in BOOLEAN}

InitTwo ==
    /\ \E c1 \in PairedCalls, c2 \in PairedCalls :
            /\ c1.env = c2.env
            /\ req = c1.req
            /\ env = c1.env
            /\ peer = NewFrame(c2)
    /\ pc = "start"
    /\ call = NoCall
    /\ outcome = NoOutcome
    /\ stream = NoStream
    /\ llm = NoLlm
    /\ database = NoDatabase
    /\ threads = <<>>
    /\ Idle

SwitchCall_SharedAccumulators ==
    /\ peer # NoPeer
    /\ peer' = [Running EXCEPT !.all_tool_results = peer.all_tool_results,
                               !.tools_executed = peer.tools_executed]
    /\ req' = peer.req
    /\ env' = peer.env
    /\ pc' = peer.pc
    /\ step_number' = peer.step_number
    /\ tool_calls_used' = peer.tool_calls_used
    /\ conversation_turn' = peer.conversation_turn
    /\ tools_to_call' = peer.tools_to_call
    /\ tool_call' = peer.tool_call
    /\ pending_chunks' = peer.pending_chunks
    /\ events' = peer.events
    /\ parsed' = peer.parsed
    /\ registry_calls' = peer.registry_calls
    /\ UNCHANGED <<all_tool_results, tools_executed, llm, database, threads, stream,
                   call, outcome>>

\* the running call is suspended and the other one resumed; each keeps its
\* own locals
SwitchCall ==
    /\ peer # NoPeer
    /\ peer' = Running
    /\ req' = peer.req
    /\ env' = peer.env
    /\ pc' = peer.pc
    /\ step_number' = peer.step_number
    /\ tool_calls_used' = peer.tool_calls_used
    /\ conversation_turn' = peer.conversation_turn
    /\ tools_to_call' = peer.tools_to_call
    /\ tool_call' = peer.tool_call
    /\ all_tool_results' = peer.all_tool_results
    /\ tools_executed' = peer.tools_executed
    /\ pending_chunks' = peer.pending_chunks
    /\ events' = peer.events
    /\ parsed' = peer.parsed
    /\ registry_calls' = peer.registry_calls
    /\ UNCHANGED <<llm, database, threads, stream, call, outcome>>

NextTwo ==
    \/ Start
    \/ ParseTurn
    \/ HelpChunk
    \/ HelpDone
    \/ ExecuteTool
    \/ Synthesize
    \/ EmitDone
    \/ HandlerAnswer
    \/ HandlerDone
    \/ SwitchCall

SpecTwo == InitTwo /\ [][NextTwo]_vars

(***************************************************************************)
(* Properties of a reasoning call                                          *)
(***************************************************************************)
CountEvents(type) == Cardinality({i \in DOMAIN events : events[i].type = type})

RECURSIVE Flatten(_)
Flatten(lists) == IF lists = <<>> THEN <<>> ELSE Head(lists) \o Flatten(Tail(lists))

\* how the registry call of turn i ended
Raised(i)        == ~tools_executed[i].success
ReturnedError(i) == tools_executed[i].success /\ all_tool_results[i].is_error
Succeeded(i)     == tools_executed[i].success /\ ~all_tool_results[i].is_error

\* C1: a call whose first turn identifies at least one tool emits, whatever
\* the outcomes of its tool calls (success, isError result, raised exception),
\* exactly one answer event and exactly one done event: never more than one
\* of either while it runs, and one of each once it has finished.
C1_OneAnswerOneDone ==
    (Len(parsed) >= 1 /\ parsed[1] # <<>>) =>
        /\ CountEvents("answer") <= 1
        /\ CountEvents("done") <= 1
        /\ pc = "done" => CountEvents("answer") = 1 /\ CountEvents("done") = 1

\* a finished call whose tool calls ended in all three ways
C1_Witness ==
    /\ pc = "done"
    /\ Len(parsed) >= 1
    /\ parsed[1] # <<>>
    /\ \E i, j, k \in DOMAIN tools_executed : Raised(i) /\ ReturnedError(j) /\ Succeeded(k)
    /\ CountEvents("answer") = 1

\* C2: every ToolCall the parser returned for a turn is executed through the
\* registry exactly once, in list order, and each executed call has one
\* tool_call event and one tool_result event: the registry calls of a
\* finished call are the parsed lists of its turns, one after the other.
C2_EveryParsedCallExecuted ==
    pc = "done" =>
        /\ registry_calls = Flatten(parsed)
        /\ CountEvents("tool_call") = Len(Flatten(parsed))
        /\ CountEvents("tool_result") = Len(Flatten(parsed))

\* parsing and the chaining decision return a new tool call after every turn
PerpetualChaining ==
    /\ env.parse.kind = "stub" /\ env.parse.ret # <<>>
    /\ env.chain.kind = "stub" /\ env.chain.ret # <<>>

\* C5: even when parsing and the chaining decision return a new tool call
\* after every turn, the call runs at most 5 turns (so makes at most 5
\* registry calls), reaches its end, and has emitted exactly one done event.
C5_TerminatesWithinFiveTurns ==
    /\ [](PerpetualChaining =>
            /\ conversation_turn <= 5
            /\ Len(registry_calls) <= 5
            /\ CountEvents("done") <= 1)
    /\ (PerpetualChaining ~> (pc = "done" /\ CountEvents("done") = 1))

\* perpetual chaining used all five turns and the call ended
C5_Witness ==
    /\ PerpetualChaining
    /\ pc = "done"
    /\ conversation_turn = 5
    /\ Len(registry_calls) = 5

\* C6: in a call that executes tools the events are: the optional thinking
\* event, then for each executed call a tool_call event immediately followed
\* by a tool_result event with the same tool_name, then the answer event, then
\* the done event; done is the last event and nothing follows it.
C6_EventOrder ==
    /\ \A i \in DOMAIN events : events[i].type = "done" => i = Len(events)
    /\ (pc = "done" /\ registry_calls # <<>>) =>
          LET n   == Len(events)
              off == IF events[1].type = "thinking" THEN 1 ELSE 0
          IN  /\ n = off + 2 * Len(registry_calls) + 2
              /\ \A i \in (off + 1)..(n - 2) :
                    IF (i - off) % 2 = 1
                    THEN /\ events[i].type = "tool_call"
                         /\ events[i].tool_name = registry_calls[(i - off + 1) \div 2].name
                    ELSE /\ events[i].type = "tool_result"
                         /\ events[i].tool_name = events[i - 1].tool_name
              /\ events[n - 1].type = "answer"
              /\ events[n].type = "done"

\* a finished call with a thinking event and two executed tool calls
C6_Witness ==
    /\ pc = "done"
    /\ Len(registry_calls) = 2
    /\ Len(events) = 7
    /\ events[1].type = "thinking"

\* the identity of CallContexts that holds only the analyst role
AnalystContext == TokenCtx(TokenFor(1, <<"analyst">>))

\* C7: for "Show transactions for user 5" issued by an analyst whose user_id
\* is not 5, query_transactions is executed, the ownership check inside the
\* tool is what fails (the tool function is entered), and the result is
\* isError = true with a text that contains "Access denied".
C7_OwnershipCheckDenies ==
    (/\ pc = "done"
     /\ req.query = Q.ShowTransactionsUser5
     /\ req.auth_context = AnalystContext
     /\ env.parse.kind = "real" /\ ~env.stub_call
     /\ env.db.initialized) =>
        /\ Len(registry_calls) = 1
        /\ registry_calls[1].name = "query_transactions"
        /\ registry_calls[1].arguments.user_id = 5
        /\ all_tool_results[1].is_error
        /\ TextHasAccessDenied(all_tool_results[1].result)

\* C8: the tool_calls_made of the done event is the number of tool calls
\* attempted (the number of tool_call events), including attempts that
\* returned isError = true and attempts that raised.
C8_ToolCallsMadeCountsAttempts ==
    pc = "done" => events[Len(events)].tool_calls_made = CountEvents("tool_call")

\* C9: for every query the call emits exactly one thinking event, as its
\* first event, when include_thinking is true, and no thinking event when
\* include_thinking is false.
C9_ThinkingFollowsFlag ==
    pc = "done" =>
        IF req.include_thinking
        THEN CountEvents("thinking") = 1 /\ events[1].type = "thinking"
        ELSE CountEvents("thinking") = 0

(***************************************************************************)
(* Properties of the RBAC core                                             *)
(***************************************************************************)
\* the context carries a non-empty token value
HasToken(c) == ContextTruthy(c) /\ EntryTruthy(ContextToken(c))

\* the token value of the context fails validation
HasBadToken(c) == HasToken(c) /\ ~validate_token(StripBearer(ContextToken(c).tok)).ok

InvalidTokenMessages ==
    {"Invalid token", "Token is required", "Token missing user identifier"}

\* C3: when the token value of the context is non-empty and fails
\* validation, identity resolution fails with the token error, the role gate
\* and the permission gate fail with the invalid-token error and the wrapped
\* function is not entered; none of them yields the anonymous identity,
\* whatever ALLOW_UNAUTHENTICATED_ACCESS and DEBUG are.
C3_BadTokenNeverAnonymous ==
    HasBadToken(call.context) =>
        /\ outcome.op = "get_user_from_context" =>
              ~outcome.res.ok /\ outcome.res.msg \in InvalidTokenMessages
        /\ outcome.op \in {"require_role", "require_permission"} =>
              /\ ~outcome.res.ok
              /\ outcome.res.msg = "Invalid or expired authentication token"
        /\ (outcome.op = "call_tool" /\ outcome.arg.db.initialized) =>
              outcome.res.isError /\ ~outcome.res.invoked

\* a gate refused a bad token although unauthenticated access is allowed
C3_Witness ==
    /\ HasBadToken(call.context)
    /\ call.settings.ALLOW_UNAUTHENTICATED_ACCESS
    /\ outcome.op = "require_permission"
    /\ ~outcome.res.ok

\* the permissions of the identity the context resolves to
ResolvedPermissions(c, st) ==
    IF get_user_from_context(c, st).ok
    THEN UserPermissions(ValidRoles(get_user_from_context(c, st).val.roles))
    ELSE {}

\* C4: the gate of query_transactions admits every identity that holds
\* read:transactions or read:user_transactions (the tool function is
\* entered), and an identity whose only role is analyst can query the
\* transactions of its own user_id.
C4_EitherPermissionAdmits ==
    (/\ outcome.op = "call_tool"
     /\ outcome.arg.name = "query_transactions"
     /\ outcome.arg.db = GoodDb
     /\ ResolvedPermissions(call.context, call.settings)
            \cap {"read:transactions", "read:user_transactions"} # {}) =>
        /\ outcome.res.invoked
        /\ (/\ get_user_from_context(call.context, call.settings).val.roles = <<"analyst">>
            /\ outcome.arg.arguments.user_id =
                   get_user_from_context(call.context, call.settings).val.user_id
            /\ outcome.arg.arguments.filters = "none") => ~outcome.res.isError

\* the context is None or empty, or carries no token value
NoTokenValue(c) == ~ContextTruthy(c) \/ ~EntryTruthy(ContextToken(c))

\* C10: when the context is None or empty, or carries no token value,
\* identity resolution returns the anonymous identity (user_id 0, username
\* "anonymous", email "", roles = the default role) if and only if
\* ALLOW_UNAUTHENTICATED_ACCESS or DEBUG is true, and otherwise fails with
\* the authentication-required error.
C10_AnonymousIffAllowed ==
    (outcome.op = "get_user_from_context" /\ NoTokenValue(call.context)) =>
        IF call.settings.ALLOW_UNAUTHENTICATED_ACCESS \/ call.settings.DEBUG
        THEN outcome.res =
                Ok([user_id |-> 0, username |-> "anonymous", email |-> "",
                    roles |-> <<call.settings.DEFAULT_UNAUTHENTICATED_ROLE>>])
        ELSE /\ ~outcome.res.ok
             /\ outcome.res.msg \in {"Authentication context is required",
                                     "Authentication token is required"}

\* DEBUG alone made a context without a token value anonymous
C10_Witness ==
    /\ outcome.op = "get_user_from_context"
    /\ ~call.context.is_none
    /\ NoTokenValue(call.context)
    /\ call.settings.DEBUG /\ ~call.settings.ALLOW_UNAUTHENTICATED_ACCESS
    /\ outcome.res.ok
    /\ outcome.res.val.user_id = 0

\* the role strings of an identity that are members of Role
RoleMembers(roles) == {roles[i] : i \in DOMAIN roles} \cap Role

\* the permissions granted to any of the role strings
GrantedTo(roles) == UNION {ROLE_PERMISSIONS[r] : r \in RoleMembers(roles)}

\* C11: for an identity the gate resolved, the permission gate succeeds if
\* and only if the identity has a valid role and every required permission
\* is in the union of the permissions of all its valid roles; when it has a
\* valid role and some required permission is not in that union, the gate
\* fails with the missing-permissions error carrying exactly the missing
\* permissions.
C11_PermissionGateAllRequired ==
    outcome.op = "require_permission" =>
        \A id \in {ResolveForGate(call.context, call.settings)} :
            id.ok =>
                /\ outcome.res.ok <=>
                        /\ RoleMembers(id.val.roles) # {}
                        /\ outcome.arg \subseteq GrantedTo(id.val.roles)
                /\ (/\ RoleMembers(id.val.roles) # {}
                    /\ ~(outcome.arg \subseteq GrantedTo(id.val.roles))) =>
                        /\ outcome.res.msg = "Missing required permissions"
                        /\ outcome.res.val = outcome.arg \ GrantedTo(id.val.roles)

\* a gate named the one permission of two that a viewer and analyst lacks
C11_Witness ==
    /\ outcome.op = "require_permission"
    /\ outcome.arg = {"read:transactions", "read:user_transactions"}
    /\ ResolveForGate(call.context, call.settings).ok
    /\ ResolveForGate(call.context, call.settings).val.roles = <<"viewer", "analyst">>
    /\ outcome.res.msg = "Missing required permissions"
    /\ outcome.res.val = {"read:transactions"}

\* C12: for an identity the gate resolved, the role gate succeeds if and
\* only if at least one of the identity's valid roles is in the allowed
\* role set; when the identity has valid roles and none is allowed, the
\* gate fails with the access-denied error.
C12_RoleGateAnyAllowed ==
    outcome.op = "require_role" =>
        \A id \in {ResolveForGate(call.context, call.settings)} :
            id.ok =>
                /\ outcome.res.ok <=> RoleMembers(id.val.roles) \cap outcome.arg # {}
                /\ (/\ RoleMembers(id.val.roles) # {}
                    /\ RoleMembers(id.val.roles) \cap outcome.arg = {}) =>
                        outcome.res.msg = "Access denied. Required roles"

\* an analyst passed a gate that allows analyst or admin
C12_Witness ==
    /\ outcome.op = "require_role"
    /\ outcome.arg = {"analyst", "admin"}
    /\ outcome.res.ok
    /\ outcome.res.val.user_roles = <<"analyst">>

\* C13: in both gates the role strings that are not admin, analyst or
\* viewer are discarded (the wrapped function receives the remaining roles
\* in their order), and an identity without a valid role fails with the
\* no-valid-roles error, also when it is the anonymous identity with a
\* default role that is not a role.
C13_NoValidRolesFails ==
    outcome.op \in {"require_role", "require_permission"} =>
        \A id \in {ResolveForGate(call.context, call.settings)} :
            id.ok =>
                /\ RoleMembers(id.val.roles) = {} =>
                        /\ ~outcome.res.ok
                        /\ outcome.res.msg = "User has no valid roles"
                /\ outcome.res.ok =>
                        outcome.res.val.user_roles =
                            SelectSeq(id.val.roles, LAMBDA r : r \in Role)

\* the anonymous identity with a default role that is no role was refused
C13_Witness ==
    /\ outcome.op = "require_permission"
    /\ call.context.is_none
    /\ call.settings.ALLOW_UNAUTHENTICATED_ACCESS
    /\ call.settings.DEFAULT_UNAUTHENTICATED_ROLE = "bogus"
    /\ outcome.res.msg = "User has no valid roles"

\* C14: the ownership check returns a boolean: true whenever the roles
\* include admin; otherwise, when the roles include analyst, true exactly
\* when the target user id equals the identity's user_id; otherwise false.
C14_OwnershipCheck ==
    outcome.op = "check_user_access" =>
        /\ outcome.res.ok
        /\ outcome.res.val \in BOOLEAN
        /\ outcome.res.val =
                IF \E i \in DOMAIN outcome.arg.user_roles :
                        outcome.arg.user_roles[i] = "admin" THEN TRUE
                ELSE IF \E i \in DOMAIN outcome.arg.user_roles :
                        outcome.arg.user_roles[i] = "analyst"
                THEN outcome.arg.user_id = outcome.arg.current_user.user_id
                ELSE FALSE

\* an analyst was refused another user's data
C14_Witness ==
    /\ outcome.op = "check_user_access"
    /\ outcome.arg.user_roles = <<"viewer", "analyst">>
    /\ outcome.arg.user_id = 2
    /\ outcome.arg.current_user.user_id = 1
    /\ outcome.res.val = FALSE

\* C15: enforce_user_access returns normally when the target user id is
\* None; for a target that is not None it raises the access-denied error
\* exactly when the ownership check returns false, and returns normally
\* otherwise.
C15_EnforceUserAccess ==
    outcome.op = "enforce_user_access" =>
        IF outcome.arg.user_id = NoneInt THEN outcome.res.ok
        ELSE IF check_user_access(outcome.arg.user_id, outcome.arg.current_user,
                                  outcome.arg.user_roles)
        THEN outcome.res.ok
        ELSE /\ ~outcome.res.ok
             /\ outcome.res.exc = "ValidationError"
             /\ outcome.res.msg = "Access denied. User cannot access data for user"

\* an analyst was refused another user's data
C15_Witness ==
    /\ outcome.op = "enforce_user_access"
    /\ outcome.arg.user_id = 2
    /\ outcome.arg.current_user.user_id = 1
    /\ outcome.arg.user_roles = <<"analyst">>
    /\ ~outcome.res.ok

(***************************************************************************)
(* Properties of the scenarios                                             *)
(***************************************************************************)
\* C16: for the query "Analyze portfolio 1 and show market data" the first
\* turn parses and executes only analyze_risk_metrics with portfolio_id 1
\* (no get_market_summary on turn 1); when the portfolio has holdings and
\* that call succeeded, a chained second turn executes get_market_summary
\* for those symbols and the done event reports tool_calls_made = 2.
C16_PortfolioThenMarket ==
    (/\ pc = "done"
     /\ req.query = Q.AnalyzeAndMarket
     /\ env.parse.kind = "real" /\ env.chain.kind = "real") =>
        /\ parsed[1] = <<ToolCall("analyze_risk_metrics",
                                  [NoArgs EXCEPT !.portfolio_id = 1])>>
        /\ registry_calls[1] = parsed[1][1]
        /\ (env.holdings # <<>> /\ Succeeded(1)) =>
                /\ Len(registry_calls) = 2
                /\ registry_calls[2].name = "get_market_summary"
                /\ registry_calls[2].arguments.symbols = env.holdings
                /\ events[Len(events)].tool_calls_made = 2

\* C17: a registry call with a name that is none of the three registered
\* tools returns a result with isError = true whose text says that the tool
\* is unknown (or, when the database is not initialized, that the database
\* is not available); no exception leaves call_tool and no tool function
\* runs.
C17_UnknownToolIsErrorResult ==
    (outcome.op = "call_tool" /\ outcome.arg.name \notin ToolNames) =>
        /\ ~outcome.res.raised
        /\ outcome.res.isError
        /\ ~outcome.res.invoked
        /\ outcome.res.text.detail =
                IF outcome.arg.db.initialized THEN "Unknown tool"
                ELSE "Database not initialized"
        /\ outcome.res.text.prefix =
                IF outcome.arg.db.initialized THEN "MCP tool error"
                ELSE "Database error in tool"

\* an unknown tool was called with an initialized database
C17_Witness ==
    /\ outcome.op = "call_tool"
    /\ outcome.arg.name = "unknown_tool"
    /\ outcome.arg.db = GoodDb
    /\ outcome.res.isError
    /\ outcome.res.text.detail = "Unknown tool"

\* the permission gate of the tool called refuses the context
GateRefuses(name, c, st) == ~require_permission(RequiredPermissions(name), c, st).ok

\* C18: when a registered tool is called directly through the registry and
\* its RBAC gate refuses the context, the failure leaves call_tool as an
\* exception instead of being returned as a tool result.
C18_GateFailurePropagates ==
    (/\ outcome.op = "call_tool"
     /\ outcome.arg.name \in ToolNames
     /\ outcome.arg.db.initialized
     /\ GateRefuses(outcome.arg.name, call.context, call.settings)) =>
        outcome.res.raised

\* C20: within one reasoning call the first event emitted has step_number
\* 1 and every later event has a step_number strictly greater than that of
\* the event before it, on every path (tool execution, help message, tool
\* exception, outer exception handler).
C20_StepNumbersIncrease ==
    events # <<>> =>
        /\ events[1].step_number = 1
        /\ \A i \in 2..Len(events) :
                events[i].step_number > events[i - 1].step_number

\* a call finished after its registry call raised
C20_Witness ==
    /\ pc = "done"
    /\ req.include_thinking
    /\ Len(registry_calls) = 1
    /\ Raised(1)
    /\ Len(events) = 5
    /\ events[5].type = "done"
    /\ events[5].step_number = 5

(***************************************************************************)
(* Properties of the streaming adapters                                    *)
(***************************************************************************)
\* C19: after its own start frame an adapter forwards the events of the
\* orchestrator one frame per event and in emission order (the i-th frame
\* after the start frame has the type and step_number of the i-th event),
\* consumes no event after the first error or done event, and ends only
\* when the events are exhausted or one of those was forwarded; the only
\* other frame is its own error frame when the generator raised.
C19_ForwardsInOrder ==
    stream.state \in {"open", "closed", "raised"} =>
        /\ stream.frames[1].type = "start"
        /\ \A i \in 1..stream.pos :
                /\ stream.frames[i + 1].type = stream.source[i].type
                /\ stream.frames[i + 1].data.step_number = stream.source[i].step_number
        /\ \A i \in 1..(stream.pos - 1) :
                stream.source[i].type \notin {"error", "done"}
        /\ Len(stream.frames) \in {1 + stream.pos, 2 + stream.pos}
        /\ Len(stream.frames) = 2 + stream.pos =>
                /\ stream.state = "closed"
                /\ stream.ends # "return"
                /\ stream.pos = Len(stream.source)
                /\ stream.frames[Len(stream.frames)].type = "error"
        /\ stream.state # "open" =>
                \/ stream.pos = Len(stream.source)
                \/ stream.source[stream.pos].type \in {"error", "done"}

\* an adapter stopped at an error event that was followed by another event
C19_Witness ==
    /\ stream.state = "closed"
    /\ Len(stream.source) = 3
    /\ stream.source[1].type = "tool_result"
    /\ stream.source[2].type = "error"
    /\ stream.pos = 2
    /\ Len(stream.frames) = 3
    /\ stream.frames[3].type = "error"

(***************************************************************************)
(* Properties of the permission table                                      *)
(***************************************************************************)
\* C21: the role-to-permission mapping is monotone: every permission of
\* viewer is a permission of analyst, every permission of analyst is a
\* permission of admin, and admin has a permission analyst lacks.
C21_RolePermissionsMonotone ==
    pc = "rbac" =>
        /\ \A p \in get_permissions_for_role("viewer") :
                p \in get_permissions_for_role("analyst")
        /\ \A p \in get_permissions_for_role("analyst") :
                p \in get_permissions_for_role("admin")
        /\ \E p \in get_permissions_for_role("admin") :
                p \notin get_permissions_for_role("analyst")

\* a permission gate that an admin passes for a permission no analyst holds
C21_Witness ==
    /\ outcome.op = "require_permission"
    /\ outcome.arg = {"write:all_data"}
    /\ outcome.res.ok
    /\ outcome.res.val.user_roles = <<"admin">>
    /\ "write:all_data" \notin get_permissions_for_role("analyst")


(***************************************************************************)
(* Properties of the turns of a reasoning call                             *)
(***************************************************************************)
AnswerEvents == SelectSeq(events, LAMBDA e : e.type = "answer")

\* C22: if turn-1 parsing identifies no tool, the call executes no tool (no
\* tool_call or tool_result event), emits the help message as answer events
\* and ends with a done event whose tool_calls_made is 0.
C22_NoToolGivesHelp ==
    (pc = "done" /\ parsed # <<>> /\ parsed[1] = <<>>) =>
        /\ registry_calls = <<>>
        /\ \A i \in DOMAIN events : events[i].type \notin {"tool_call", "tool_result"}
        /\ AnswerEvents # <<>>
        /\ [i \in DOMAIN AnswerEvents |-> AnswerEvents[i].content_len]
               = ChunkLens(HelpFixedLen + Len(req.query), chunk_size)
        /\ events[Len(events)].type = "done"
        /\ events[Len(events)].tool_calls_made = 0
        /\ \A i \in 1..(Len(events) - 1) : events[i].type # "done"

\* the repository's parser finds no tool in a query without keywords
C22_Witness ==
    /\ pc = "done"
    /\ env.parse.kind = "real"
    /\ req.query = Q.Gibberish
    /\ parsed = << <<>> >>
    /\ Len(AnswerEvents) >= 12
    /\ events[Len(events)].type = "done"


ToolResultEvents == SelectSeq(events, LAMBDA e : e.type = "tool_result")

\* C23: if the registry call for a tool raises, the exception is caught for
\* that call: a ToolResult with is_error = true is appended to the accumulated
\* results, a tool_result event with is_error = true is emitted, and the call
\* goes on to the chaining decision and the answer instead of aborting.
C23_RaisedCallContinues ==
    /\ pc # "exec" => /\ Len(all_tool_results) = Len(registry_calls)
                      /\ Len(ToolResultEvents) = Len(registry_calls)
                      /\ Len(tools_executed) = Len(registry_calls)
    /\ \A i \in DOMAIN tools_executed :
        Raised(i) =>
            /\ all_tool_results[i].tool_name = registry_calls[i].name
            /\ all_tool_results[i].is_error
            /\ ToolResultEvents[i].is_error
            /\ ToolResultEvents[i].tool_name = registry_calls[i].name
            /\ pc \in {"loop", "exec", "synth", "answered", "done"}
            /\ pc = "done" => /\ Len(AnswerEvents) = 1
                              /\ ~AnswerEvents[1].is_error
                              /\ events[Len(events)].type = "done"
                              /\ ~events[Len(events)].is_error

\* a call whose only registry call raised and which went on to the answer
C23_Witness ==
    /\ pc = "done"
    /\ env.stub_call
    /\ Len(tools_executed) = 1
    /\ Raised(1)
    /\ all_tool_results[1].is_error
    /\ ToolResultEvents[1].is_error
    /\ Len(AnswerEvents) = 1


\* C24: whenever the chaining decision after turn n returns a non-empty list
\* of tool calls, turn n+1 executes exactly those tool calls (same names and
\* arguments) and no others.  (After a turn, pc = "loop" exactly when the
\* chaining decision was non-empty, and tools_to_call then holds its list.)
C24_ChainedCallsExecuted ==
    [][(pc = "loop" /\ conversation_turn >= 1) =>
            /\ pc' = "exec"
            /\ {tool_call'} = SeqRange(tools_to_call)]_vars


\* C25: for every executed tool call, the is_error flag of the emitted
\* tool_result event equals the is_error flag stored in the corresponding
\* accumulated ToolResult: both are true exactly when the registry returned
\* isError = true or the call raised.
C25_EventFlagMatchesStoredFlag ==
    \A i \in DOMAIN all_tool_results :
        i \in DOMAIN ToolResultEvents =>
            /\ ToolResultEvents[i].is_error = all_tool_results[i].is_error
            /\ ToolResultEvents[i].is_error = (Raised(i) \/ ReturnedError(i))


(***************************************************************************)
(* Properties of the orchestrator's methods                                *)
(***************************************************************************)
\* the symbol set the chaining decision derives from the portfolio
DerivedSymbols(results) ==
    IF \E i \in DOMAIN results : /\ results[i].tool_name = "analyze_risk_metrics"
                                 /\ ~results[i].is_error
                                 /\ results[i].result.portfolio_id # NoneInt
    THEN SeqRange(env.holdings) ELSE {}

\* C26: if some earlier get_market_summary call in the accumulated results was
\* made with a symbols argument that is set-equal to the symbol set derived
\* from the portfolio, the chaining decision emits no get_market_summary call.
C26_NoRepeatedMarketCall ==
    outcome.op = "_determine_chained_tools" =>
        ((\E i \in DOMAIN outcome.arg.all_results :
                /\ outcome.arg.all_results[i].tool_name = "get_market_summary"
                /\ SeqRange(outcome.arg.all_results[i].arguments.symbols)
                       = DerivedSymbols(outcome.arg.all_results))
         => \A j \in DOMAIN outcome.res : outcome.res[j].name # "get_market_summary")

\* C29: the status of the synthesized final answer is "success" iff at least
\* one tool result succeeded and none failed, "error" iff no tool result
\* succeeded, and "partial" iff at least one succeeded and at least one failed.
C29_FinalAnswerStatus ==
    outcome.op = "_generate_final_answer" =>
        /\ outcome.res.status \in {"success", "error", "partial"}
        /\ outcome.res.status = "success" <=>
                /\ \E i \in DOMAIN outcome.arg : ~outcome.arg[i].is_error
                /\ \A i \in DOMAIN outcome.arg : ~outcome.arg[i].is_error
        /\ outcome.res.status = "error" <=>
                \A i \in DOMAIN outcome.arg : outcome.arg[i].is_error
        /\ outcome.res.status = "partial" <=>
                /\ \E i \in DOMAIN outcome.arg : ~outcome.arg[i].is_error
                /\ \E i \in DOMAIN outcome.arg : outcome.arg[i].is_error

\* one failed and two successful results give "partial"
C29_Witness ==
    /\ outcome.op = "_generate_final_answer"
    /\ Len(outcome.arg) = 3
    /\ outcome.arg[1].is_error
    /\ ~outcome.arg[2].is_error
    /\ ~outcome.arg[3].is_error
    /\ outcome.res.status = "partial"


\* C27: chaining is single-hop: in a call that uses the repository's parser
\* and chaining decision, with the holdings lookup returning the same symbols
\* throughout, at most two turns execute tool calls: the initial turn and at
\* most one chained get_market_summary turn.
C27_SingleHop ==
    (env.parse.kind = "real" /\ env.chain.kind = "real") =>
        /\ Len(registry_calls) <= 2
        /\ Len(registry_calls) = 2 =>
                /\ registry_calls[2].name = "get_market_summary"
                /\ registry_calls[2].arguments.symbols = env.holdings
        /\ pc \in {"synth", "answered", "done"} /\ registry_calls # <<>> =>
                Len(parsed) \in {Len(registry_calls), Len(registry_calls) + 1}

\* a portfolio analysis followed by one chained market turn, then the answer
C27_Witness ==
    /\ env.parse.kind = "real" /\ env.chain.kind = "real"
    /\ pc = "done"
    /\ Len(registry_calls) = 2
    /\ registry_calls[1].name = "analyze_risk_metrics"
    /\ registry_calls[2].name = "get_market_summary"
    /\ conversation_turn = 2


(***************************************************************************)
(* Properties of the tool registry                                         *)
(***************************************************************************)
\* identity resolution, role validation and the permission check of the gate
\* of tool name all succeed for the context and settings of the call
GatePasses(name) ==
    /\ ResolveForGate(call.context, call.settings).ok
    /\ RoleMembers(ResolveForGate(call.context, call.settings).val.roles)
            \cap Role # {}
    /\ RequiredPermissions(name) \subseteq
            GrantedTo(ResolveForGate(call.context, call.settings).val.roles)

\* C28: a gated tool function (and therefore the query layer behind it) is
\* invoked only after identity resolution, role validation and the permission
\* check have all succeeded; on any gate failure the wrapped function is not
\* invoked at all.
C28_InvokedOnlyBehindGate ==
    (outcome.op = "call_tool" /\ outcome.arg.name \in ToolNames) =>
        /\ outcome.res.invoked => GatePasses(outcome.arg.name)
        /\ outcome.res.queried => outcome.res.invoked
        /\ ~GatePasses(outcome.arg.name) =>
                ~outcome.res.invoked /\ ~outcome.res.queried /\ outcome.res.isError

\* a viewer's market summary: the gate passed and the query layer was reached
C28_Witness ==
    /\ outcome.op = "call_tool"
    /\ outcome.arg.name = "get_market_summary"
    /\ call.context = Ctx(Entry(TokenFor(2, <<"viewer">>)), Absent, FALSE)
    /\ outcome.res.invoked
    /\ outcome.res.queried
    /\ ~outcome.res.isError


\* C30: every database session acquired by a registry call is closed before
\* the call returns: on the success path, on every isError path (unknown tool,
\* RBAC denial, validation or database error) and when the tool function
\* raises; no session outlives the call that acquired it.
C30_SessionClosedOnEveryPath ==
    outcome.op = "call_tool" =>
        /\ outcome.res.opened = (IF outcome.arg.db.initialized THEN 1 ELSE 0)
        /\ outcome.res.closed = outcome.res.opened
        /\ ~outcome.res.raised

\* a tool function that raised in the query layer: the session was closed
C30_Witness ==
    /\ outcome.op = "call_tool"
    /\ outcome.arg.name = "analyze_risk_metrics"
    /\ outcome.arg.db.query = "DatabaseQueryError"
    /\ outcome.res.queried
    /\ outcome.res.isError
    /\ outcome.res.opened = 1
    /\ outcome.res.closed = 1


(***************************************************************************)
(* Properties of turn-1 parsing                                            *)
(***************************************************************************)
Emits(tools, name) == \E i \in DOMAIN tools : tools[i].name = name

\* C31: turn-1 parsing emits a query_transactions call if and only if the
\* query contains one of the explicit keywords transaction(s), trade(s),
\* spending or purchase (case-insensitive substring); the portfolio-and-market
\* suppression rule never removes a call the explicit-keyword test admits.
C31_TransactionsIffExplicitKeyword ==
    outcome.op = "_parse_query_to_tools" =>
        (Emits(outcome.res, "query_transactions")
            <=> ContainsAny(outcome.arg.query, transaction_keywords))

\* a portfolio query that is also a market query and names transactions
C31_Witness ==
    /\ outcome.op = "_parse_query_to_tools"
    /\ outcome.arg.query = Q.PortfolioMarketTransactions
    /\ Emits(outcome.res, "analyze_risk_metrics")
    /\ Emits(outcome.res, "get_market_summary")
    /\ Emits(outcome.res, "query_transactions")

\* C32: on turn 1, for a query that contains a market keyword, contains
\* "holdings" and from which a portfolio id is extracted, get_market_summary
\* is emitted if and only if explicit ticker symbols are extracted from the
\* query.
C32_HoldingsQueryMarketIffSymbols ==
    (/\ outcome.op = "_parse_query_to_tools"
     /\ ContainsAny(outcome.arg.query, MarketKeywords)
     /\ ContainsAny(outcome.arg.query, HoldingsKeywords)
     /\ _extract_portfolio_id(outcome.arg.query) # NoneInt) =>
        (Emits(outcome.res, "get_market_summary")
            <=> _extract_market_args(outcome.arg.query).has_symbols)

\* a holdings query that names a ticker gets its market call on turn 1
C32_Witness ==
    /\ outcome.op = "_parse_query_to_tools"
    /\ outcome.arg.query = Q.HoldingsPriceAAPL
    /\ Emits(outcome.res, "get_market_summary")
    /\ outcome.res[Len(outcome.res)].arguments.symbols = <<Lit.w_AAPL>>

\* C39: for every non-negative integer N (including 0), turn-1 parsing of a
\* query containing "portfolio N" emits an analyze_risk_metrics call whose
\* portfolio_id is N.
C39_PortfolioIdEmitted ==
    (/\ outcome.op = "_parse_query_to_tools"
     /\ _extract_portfolio_id(outcome.arg.query) # NoneInt) =>
        \E i \in DOMAIN outcome.res :
            /\ outcome.res[i].name = "analyze_risk_metrics"
            /\ outcome.res[i].arguments.portfolio_id
                    = _extract_portfolio_id(outcome.arg.query)


RECURSIVE SumLens(_)
SumLens(lens) == IF lens = <<>> THEN 0 ELSE Head(lens) + SumLens(Tail(lens))

\* C40: in the no-tool path, concatenating the contents of the answer events
\* in emission order yields exactly the final_answer carried by the done
\* event, and every chunk has between 1 and 50 characters.  (Each chunk is
\* the slice of final_answer that starts where the previous one ended: every
\* chunk but the last has 50 characters and the lengths add up to the length
\* of final_answer.)
C40_HelpChunksRebuildAnswer ==
    (pc = "done" /\ parsed = << <<>> >>) =>
        /\ \A i \in DOMAIN AnswerEvents :
                /\ AnswerEvents[i].content_len >= 1
                /\ AnswerEvents[i].content_len <= 50
                /\ i < Len(AnswerEvents) => AnswerEvents[i].content_len = 50
        /\ SumLens([i \in DOMAIN AnswerEvents |-> AnswerEvents[i].content_len])
                = events[Len(events)].content_len
        /\ events[Len(events)].content_len = HelpFixedLen + Len(req.query)

\* the help message for a 26-character query: eleven full chunks and a tail
C40_Witness ==
    /\ pc = "done"
    /\ parsed = << <<>> >>
    /\ req.query = Q.Gibberish
    /\ Len(AnswerEvents) = 12
    /\ AnswerEvents[12].content_len = 39
    /\ events[Len(events)].content_len = 589


(***************************************************************************)
(* Properties of the access tokens                                         *)
(***************************************************************************)
\* C34: token issuance and extraction round-trip: for every identity placed
\* in an access token (every user_id including 0, username, email, roles
\* list), extract_user_from_token on the issued token returns the same
\* user_id, username, email and roles.
C34_TokenRoundTrip ==
    outcome.op = "extract_user_from_token" =>
        /\ outcome.res.ok
        /\ outcome.res.val.user_id = outcome.arg.user_id
        /\ outcome.res.val.username = outcome.arg.username
        /\ outcome.res.val.email = outcome.arg.email
        /\ outcome.res.val.roles = outcome.arg.roles

(***************************************************************************)
(* Properties of the Database singleton                                    *)
(***************************************************************************)
EngineSet  == "_engine" \in database.attrs /\ database._engine # NoneInt
FactorySet == "_SessionLocal" \in database.attrs /\ database._SessionLocal # NoneInt

Quiescent == \A t \in Threads : threads[t].op = "idle"

\* C36 as stated: across any number of sequential or concurrent initialize
\* calls (close never called), the engine and the session factory are each
\* created at most once.
C36_CreatedAtMostOnce ==
    (pc = "db" /\ ~database.close_called) =>
        /\ database.engines_created <= 1
        /\ database.factories_created <= 1

\* C36, amended: across sequential and concurrent initialize calls (close
\* never called) the session factory is created at most once and an engine
\* is created at most once more than connection tests have failed; once
\* _initialized is set no step of any call changes the engine, the session
\* factory or the flag.
C36_InitializeIdempotent ==
    [][(pc = "db" /\ ~database'.close_called) =>
            /\ database'.factories_created <= 1
            /\ database'.engines_created <= database'.connect_failures + 1
            /\ database._initialized =>
                    /\ database'._initialized
                    /\ database'._engine = database._engine
                    /\ database'._SessionLocal = database._SessionLocal
                    /\ database'.engines_created = database.engines_created
                    /\ database'.factories_created = database.factories_created]_vars

\* both threads have called initialize against a reachable server and both
\* calls are over: one engine, one factory
C36_Witness ==
    /\ pc = "db"
    /\ Quiescent
    /\ ~database.close_called
    /\ database._initialized
    /\ \A t \in Threads : threads[t].calls = 1 /\ threads[t].raised = "none"
                          /\ threads[t].database_url # ""
    /\ database.engines_created = 1
    /\ database.factories_created = 1

\* C37: whenever no call is in progress, is_initialized() being true implies
\* that both the engine and the session factory are set.
C37_InitializedImpliesEngineAndFactory ==
    (pc = "db" /\ Quiescent /\ database._initialized) => (EngineSet /\ FactorySet)

\* C38: a close call never raises and, when it returns, the database is
\* uninitialized.
C38_CloseNeverRaises ==
    [][\A t \in Threads :
            (pc = "db" /\ threads[t].op = "close" /\ threads'[t].op = "idle") =>
                /\ threads'[t].raised = "none"
                /\ ~database'._initialized]_vars

(***************************************************************************)
(* Properties of the LLM-backed reasoning loop                             *)
(***************************************************************************)
\* C35: whatever the LLM answers, a reasoning call sends at most MAX_TURNS
\* requests.
C35_AtMostMaxTurnsRequests ==
    pc \in {"llm_loop", "llm_response", "llm_after", "done"} =>
        llm.requests <= LLM_MAX_TURNS

(***************************************************************************)
(* Properties of two calls on one instance                                 *)
(***************************************************************************)
\* the accumulators of the call with frame s follow from its own query and
\* the outcomes of its own tool calls, as its own events record them
OwnAccumulators(s) ==
    /\ Len(s.tools_executed) =
            Cardinality({i \in DOMAIN s.events : s.events[i].type = "tool_result"})
    /\ Len(s.all_tool_results) = Len(s.tools_executed)
    /\ s.tool_calls_used =
            Cardinality({i \in DOMAIN s.events : /\ s.events[i].type = "tool_result"
                                                 /\ ~s.events[i].is_error})
    /\ s.step_number =
            Cardinality({i \in DOMAIN s.events : s.events[i].type # "done"})
    /\ \A i \in DOMAIN s.events :
            IF s.events[i].type = "done"
            THEN s.events[i].tool_calls_made = s.tool_calls_used
            ELSE s.events[i].step_number = i
    /\ s.env.parse.kind # "raise" => s.conversation_turn = Len(s.parsed)
    /\ \A k \in DOMAIN s.registry_calls :
            s.registry_calls[k] = LoopBinding(s.parsed[k])
    /\ \A k \in DOMAIN s.parsed :
            (k <= Len(s.all_tool_results) + 1) /\
            s.parsed[k] = _parse_query_to_tools(
                              s.req.query, s.req.user_id,
                              IF k > 1 THEN SubSeq(s.all_tool_results, 1, k - 1) ELSE <<>>,
                              s.env.holdings)

\* C33: two calls on the same instance, interleaved at their suspension
\* points in any order, share no accumulator: the results, executed tools,
\* turn counter, step numbers and tool_calls_made of each follow from its own
\* query and its own tool outcomes.
C33_CallsShareNoAccumulators ==
    peer # NoPeer =>
        \E running \in {Running} : OwnAccumulators(running) /\ OwnAccumulators(peer)

\* one call has its first tool result and is about to start its second turn
\* while the other is suspended between its tool call event and the result
C33_Witness ==
    /\ peer # NoPeer
    /\ pc = "loop"
    /\ req.query = Q.AnalyzeHoldings
    /\ conversation_turn = 1
    /\ Len(all_tool_results) = 1
    /\ tool_calls_used = 1
    /\ peer.pc = "exec"
    /\ peer.req.query = Q.ShowTransactionsUser5
    /\ peer.all_tool_results = <<>>
    /\ peer.tool_calls_used = 0

====
